---- MODULE Spec2Model ----
(***************************************************************************)
(* Agentic Threat Intel Feed: the fingerprint store (deduplicator.py), the *)
(* cycle controller (agent.py run_cycle) and the deep-dive stage           *)
(* (deep_diver.py deep_dive), with the enricher as the controller sees it. *)
(***************************************************************************)
EXTENDS Integers, Sequences, FiniteSets, TLC

VARIABLES
    cfg,        \* config.py module attributes read by the controller
    db,         \* the SQLite file: table created?, rows of seen_items
    clock,      \* datetime('now') of the database, in whole time units
    op,         \* store API: name of the last call made against the store
    args,       \* store API: the item list of that call
    ret,        \* store API: the list the last call returned (<<>> for None)
    err,        \* name of the exception the last call raised, or "none"
    prev,       \* history: the last store call repeated the call before it
    marked,     \* history: ids ever passed to mark_seen
    pc,         \* run_cycle: position in the body
    raw,        \* run_cycle: local raw
    new_items,  \* run_cycle: local new_items
    enriched,   \* run_cycle: local enriched
    to_notify,  \* run_cycle: local to_notify
    slack,      \* run_cycle: state of each send_slack of the gather
    calls,      \* run_cycle: stage events of the current cycle, in order
    result,     \* run_cycle: value returned by the last finished cycle
    once,       \* main(once): TRUE runs a single cycle, FALSE loops
    dive_in,    \* deep_dive: the list it was called with
    fetched,    \* deep_dive: positions of the input whose url was fetched
    outcomes,   \* deep_dive: per position, what fetch and analysis gave
    email,      \* run_cycle: what the send_email of this cycle did
    enrichCnt,  \* history: per id, times it was submitted to enrich
    notifyCnt,  \* history: per id, times it was passed to send_slack
    utc_now,    \* main: datetime.now(timezone.utc), in seconds
    spike_until,\* main: local spike_until (None: NORMAL)
    sleep_for,  \* main: local sleep_for
    prev_until, \* history: spike_until before the last evaluation
    trigger_at, \* history: utc_now of the last evaluation that triggered
    llm,        \* enrich: the LLM calls of the last enrich, one per batch
    coll,       \* collect_all: per source its outcome and the items it gave
    today,      \* date.today(), as a day number
    daily_cost, \* the SQLite file: rows of daily_cost, date -> total_usd
    skipped,    \* history: ids of the items enrich left in a batch it skipped
    handled,    \* history: ids that were notifiable in an earlier cycle
    http,       \* _get_with_retry: the attempts, waits and result of a call
    nav         \* _fetch_content: the checks, requests and result of a call

vars == <<cfg, db, clock, op, args, ret, err, prev, marked, pc, raw, new_items, enriched,
          to_notify, slack, calls, result, once, dive_in, fetched, outcomes,
          email, enrichCnt, notifyCnt, utc_now, spike_until, sleep_for, prev_until,
          trigger_at, llm, coll, today, daily_cost, skipped, handled,
          http, nav>>

\* the variables of main's loop, and everything outside run_cycle and the store
mainVars == <<utc_now, spike_until, sleep_for, prev_until, trigger_at>>
costVars == <<today, daily_cost, skipped, handled>>
ioVars == <<http, nav>>
restVars == <<mainVars, llm, coll, costVars, ioVars>>

\* ---------------------------------------------------------------- bounds
NumIds    == 2      \* distinct canonical ids the sources can produce
MaxItems  == 2      \* longest list a call or a collection returns
MaxClock  == 1      \* the database clock is observed up to this value

Ids == 1..NumIds

\* ------------------------------------------------------------- sequences
Range(s) == {s[k] : k \in DOMAIN s}

\* [x for k, x in enumerate(s) if keep[k]]
RECURSIVE SelectByIndex(_, _)
SelectByIndex(s, keep) ==
    IF s = <<>> THEN <<>>
    ELSE LET n    == Len(s)
             init == SelectByIndex(SubSeq(s, 1, n - 1), keep)
         IN  IF n \in keep THEN Append(init, s[n]) ELSE init

SeqsUpTo(S, n) == UNION {[1..k -> S] : k \in 0..n}

\* dict.get(key, default)
Get(item, key, default) == IF key \in DOMAIN item THEN item[key] ELSE default

\* Python's None where the other values are numbers
None == 0 - 1

\* send_email has not been called
NoEmail == [state |-> "none", items |-> <<>>]

\* ================================================================ config
\* a variant: the setting is used as it is given
clamp_Unbounded(value, lo, hi) == value

clamp(value, lo, hi) ==
    IF value < lo THEN lo ELSE IF value > hi THEN hi ELSE value

Max(a, b) == IF a >= b THEN a ELSE b
Min(a, b) == IF a <= b THEN a ELSE b

\* the module attributes computed from the environment at import time
Config(envThreshold, envSpikeMin, envDiveMin, envDiveMax) ==
    [SEVERITY_THRESHOLD      |-> clamp(envThreshold, 1, 10),
     SPIKE_SEVERITY_MIN      |-> clamp(envSpikeMin, 1, 10),
     DEEP_DIVE_MIN_SEVERITY  |-> clamp(envDiveMin, 1, 10),
     DEEP_DIVE_MAX_PER_CYCLE |-> Max(1, envDiveMax)]

\* DAILY_COST_LIMIT_USD = float(os.getenv(...)), used as it is given
Budget(envLimit) == [DAILY_COST_LIMIT_USD |-> envLimit]

\* the notifier settings: TRUE for a non-empty string
Channels(slackWebhookUrl, smtpHost) ==
    [SLACK_WEBHOOK_URL |-> slackWebhookUrl, SMTP_HOST |-> smtpHost]

\* ====================================================== fingerprint store
\* hashlib.sha256(id): a digest in another domain, distinct ids never collide
sha256(id) == (id * 37 + 11) % 64

fingerprint(item) == sha256(item.id)

\* CREATE TABLE IF NOT EXISTS seen_items; commit
connect(d) == [d EXCEPT !.created = TRUE]

\* a variant: INSERT OR REPLACE, which rewrites seen_at of an existing row
InsertOrReplace(t, fp, now) ==
    [t EXCEPT !.rows = [f \in (DOMAIN t.rows) \cup {fp} |->
                            IF f = fp THEN now ELSE t.rows[f]]]

\* INSERT OR IGNORE INTO seen_items (fingerprint): seen_at defaults to now; a
\* row whose primary key exists is left as it is and no IntegrityError is raised
InsertOrIgnore(t, fp, now) ==
    IF fp \in DOMAIN t.rows THEN t
    ELSE [t EXCEPT !.rows = t.rows @@ (fp :> now)]

\* executemany over the list, in order; stops at the first statement that raises
RECURSIVE ExecuteMany(_, _, _)
ExecuteMany(t, fps, now) ==
    IF fps = <<>> \/ t.err # "none" THEN t
    ELSE ExecuteMany(InsertOrIgnore(t, Head(fps), now), Tail(fps), now)

\* a variant: the SELECT matches no row, so nothing is filtered out
filter_new_NoLookup(d, items) ==
    IF items = <<>> THEN [ret |-> <<>>, db |-> d]
    ELSE [ret |-> items, db |-> connect(d)]

\* filter_new: the returned list and the database it leaves behind
filter_new(d, items) ==
    IF items = <<>> THEN [ret |-> <<>>, db |-> d]
    ELSE LET conn == connect(d)
             fps  == [k \in DOMAIN items |-> fingerprint(items[k])]
             seen == {fp \in DOMAIN conn.seen_items : fp \in Range(fps)}
         IN  [ret |-> SelectByIndex(items, {k \in DOMAIN items : fps[k] \notin seen}),
              db  |-> conn]

\* mark_seen: the database after the call and the exception it raised; the
\* commit is skipped when executemany raises, so the inserts are rolled back
mark_seen(d, items, now) ==
    IF items = <<>> THEN [db |-> d, err |-> "none"]
    ELSE LET conn == connect(d)
             fps  == [k \in DOMAIN items |-> fingerprint(items[k])]
             t    == ExecuteMany([rows |-> conn.seen_items, err |-> "none"], fps, now)
         IN  IF t.err = "none"
             THEN [db |-> [conn EXCEPT !.seen_items = t.rows], err |-> "none"]
             ELSE [db |-> conn, err |-> t.err]

\* Items older than this are eligible for cleanup (days; the clock counts days)
DEDUP_TTL_DAYS == 30

\* a variant: a row exactly `days` old is deleted as well
prune_old_entries_AtTtl(d, days, now) ==
    LET conn == connect(d)
        old  == {fp \in DOMAIN conn.seen_items : conn.seen_items[fp] <= now - days}
    IN  [db  |-> [conn EXCEPT !.seen_items =
                    [fp \in (DOMAIN conn.seen_items) \ old |-> conn.seen_items[fp]]],
         ret |-> Cardinality(old)]

\* prune_old_entries: DELETE FROM seen_items WHERE seen_at <
\* datetime('now', '-<days> days'); commit; return cur.rowcount
prune_old_entries(d, days, now) ==
    LET conn == connect(d)
        old  == {fp \in DOMAIN conn.seen_items : conn.seen_items[fp] < now - days}
    IN  [db  |-> [conn EXCEPT !.seen_items =
                    [fp \in (DOMAIN conn.seen_items) \ old |-> conn.seen_items[fp]]],
         ret |-> Cardinality(old)]

EmptyDb == [created |-> FALSE, seen_items |-> <<>>]

\* ============================================================= collector
\* len(RSS_FEEDS)
NumFeeds == 6

\* the sources in the order of the returned list: the RSS feeds, NVD, CISA KEV
NVD == NumFeeds + 1
CISA == NumFeeds + 2
Sources == 1..CISA

\* collect_all has not fetched anything
CollIdle == [status |-> [s \in Sources |-> "pending"],
             got    |-> [s \in Sources |-> <<>>]]

\* _get_with_retry and _fetch_content have not been called
HttpIdle == [state |-> "idle"]
NavIdle == [state |-> "idle"]

\* main has not evaluated anything
MainIdle ==
    /\ utc_now = 0 /\ spike_until = None /\ sleep_for = 0
    /\ prev_until = None /\ trigger_at = None

\* nothing outside run_cycle and the store has happened
RestIdle ==
    /\ MainIdle /\ llm = <<>> /\ coll = CollIdle
    /\ today = 1 /\ daily_cost = <<>> /\ skipped = {}
    /\ handled = {}
    /\ http = HttpIdle /\ nav = NavIdle

\* ============================================== items the sources produce
\* NVD and CISA KEV both build id = url = the NVD detail page of the CVE
RawItems == {[id |-> i, url |-> i] : i \in Ids}

\* ============================================================== enricher
BATCH_SIZE == 15

\* a result's severity is a JSON number, or (quoted) a JSON string holding
\* the digits of the number: 8 or "8"
\* _validate_result: severity is an int in 0..10 (relevant and topics typed);
\* isinstance("8", int) is False; topics only has to be a list, whatever its
\* elements are
validate_result(r) == ~r.quoted /\ r.severity >= 0 /\ r.severity <= 10

\* int(result.get("severity", 0)): the number itself, or the number a string
\* of digits spells
int_severity(r) == r.severity

\* an element of a topics list that is a JSON number, not a string
NonString == "<number>"

\* the except branches: every item of the batch with severity 0
Fallback(batch) ==
    [k \in DOMAIN batch |->
        [summary |-> "", severity |-> 0, topics |-> <<>>] @@ batch[k]]

\* for item, result in zip(batch, results): zip stops at the shorter list; an
\* element that is no JSON object makes r.get raise (AttributeError), which
\* leaves the loop with what was appended so far; invalid results are
\* dropped, relevant ones appended
RECURSIVE ZipResults(_, _)
ZipResults(batch, results) ==
    IF batch = <<>> \/ results = <<>> THEN [out |-> <<>>, raised |-> FALSE]
    ELSE LET item == Head(batch)
             r    == Head(results)
             rest == ZipResults(Tail(batch), Tail(results))
         IN  IF ~r.object THEN [out |-> <<>>, raised |-> TRUE]
             ELSE IF validate_result(r) /\ r.relevant
             THEN [rest EXCEPT !.out =
                     <<[summary |-> "summary", severity |-> int_severity(r),
                        topics |-> r.topics] @@ item>> \o rest.out]
             ELSE rest

\* one iteration of the batch loop, given what the LLM call did: it raised,
\* its text was no JSON, or it was a JSON array
EnrichBatch(batch, response) ==
    IF response.kind = "ok"
    THEN LET z == ZipResults(batch, response.results)
         IN  IF z.raised THEN z.out \o Fallback(batch) ELSE z.out
    ELSE Fallback(batch)

\* SELECT total_usd FROM daily_cost WHERE date = ?; 0.0 when there is no row
get_db_cost(table, date_str) ==
    IF date_str \in DOMAIN table THEN table[date_str] ELSE 0

\* INSERT ... ON CONFLICT(date) DO UPDATE SET total_usd = total_usd + amount
add_db_cost(table, date_str, amount) ==
    [d \in (DOMAIN table) \cup {date_str} |->
        IF d = date_str THEN get_db_cost(table, date_str) + amount ELSE table[d]]

\* a variant: the spend of every date counts
budget_remaining_AnyDate(table, date_str, limit) ==
    \A d \in (DOMAIN table) \cup {date_str} : get_db_cost(table, d) < limit

\* _budget_remaining: today's recorded spend is below the limit
budget_remaining(table, date_str, limit) ==
    get_db_cost(table, date_str) < limit

\* _track_cost after a call that returned a response billed at `cost`; a call
\* that raised has no response and records nothing
track_cost(table, date_str, response) ==
    IF response.kind = "raise" THEN table
    ELSE add_db_cost(table, date_str, response.cost)

\* the ids of the items in the batches after the last call made: the loop
\* was left at the budget check of the first of them
SkippedItems(items, made) ==
    {items[k].id : k \in {j \in DOMAIN items : j > Len(made) * BATCH_SIZE}}

\* enrich: batches of BATCH_SIZE. Before each batch the spend recorded for
\* date_str is compared with the limit; responses[b] is what the LLM call of
\* batch b does. Returns the list, the table as the calls leave it and, for
\* each call made, the response with the date and the spend it was made at.
RECURSIVE EnrichFrom(_, _, _, _, _, _)
EnrichFrom(items, b, table, date_str, limit, responses) ==
    IF items = <<>> \/ ~budget_remaining(table, date_str, limit)
    THEN [out |-> <<>>, table |-> table, calls |-> <<>>]
    ELSE LET n    == Min(BATCH_SIZE, Len(items))
             r    == responses[b]
             rest == EnrichFrom(SubSeq(items, n + 1, Len(items)), b + 1,
                                track_cost(table, date_str, r), date_str,
                                limit, responses)
         IN  [out   |-> EnrichBatch(SubSeq(items, 1, n), r) \o rest.out,
              table |-> rest.table,
              calls |-> <<[date  |-> date_str,
                           spent |-> get_db_cost(table, date_str)] @@ r>>
                        \o rest.calls]

enrich(items, table, date_str, limit, responses) ==
    EnrichFrom(items, 1, table, date_str, limit, responses)

NumBatches(items) == (Len(items) + BATCH_SIZE - 1) \div BATCH_SIZE

\* ============================================================= deep dive
\* sorted(candidates, key=severity, reverse=True): stable, so equal
\* severities keep their original relative order
RECURSIVE InsertDesc(_, _)
InsertDesc(sorted, x) ==
    IF sorted = <<>> THEN <<x>>
    ELSE IF Get(Head(sorted), "severity", 0) >= Get(x, "severity", 0)
    THEN <<Head(sorted)>> \o InsertDesc(Tail(sorted), x)
    ELSE <<x>> \o sorted

RECURSIVE SortDesc(_)
SortDesc(s) ==
    IF s = <<>> THEN <<>>
    ELSE InsertDesc(SortDesc(SubSeq(s, 1, Len(s) - 1)), s[Len(s)])

\* candidates: at or above the floor, highest severity first, capped
Candidates(items, c) ==
    LET above  == SelectByIndex(items,
                     {k \in DOMAIN items :
                        Get(items[k], "severity", 0) >= c.DEEP_DIVE_MIN_SEVERITY})
        sorted == SortDesc(above)
    IN  SubSeq(sorted, 1, Min(c.DEEP_DIVE_MAX_PER_CYCLE, Len(sorted)))

\* what _call_claude returned, merged over the item: {**item, "deep_dive": True, ...}
Merge(item) ==
    [deep_dive |-> TRUE, deep_summary |-> "deep summary", iocs |-> <<>>,
     affected_products |-> <<>>, cve_ids |-> <<>>, threat_actor |-> "",
     mitigations |-> <<>>] @@ item

\* deep_dive: outcome[k] says what fetching and analysing items[k] gives:
\*   "ok"                   _call_claude returned a non-empty JSON object
\*   "fetch_none"           _fetch_content returned None (failure or paywall)
\*   "analysis_none"        _call_claude returned None (API error, no JSON)
\*   "analysis_not_object"  _call_claude returned json.loads(raw) that is a
\*                          non-empty array, string or number: `not analysis`
\*                          is False and analysis.get raises AttributeError
\* The loop runs over items in order and stops at the first raise. Returns the
\* result list, the positions whose url was passed to _fetch_content, what
\* each position met ("skipped": never fetched) and the exception raised.
deep_dive(items, c, outcome) ==
    LET candidates     == Candidates(items, c)
        candidate_urls == {candidates[k].url : k \in DOMAIN candidates}
        hit            == {k \in DOMAIN items : items[k].url \in candidate_urls}
        bad            == {k \in hit : outcome[k] = "analysis_not_object"}
        reached        == {k \in hit : \A j \in bad : k <= j}
    IN  [results  |-> [k \in DOMAIN items |->
                        IF k \in hit /\ outcome[k] = "ok"
                        THEN Merge(items[k]) ELSE items[k]],
         fetched  |-> reached,
         outcomes |-> [k \in DOMAIN items |->
                        IF k \in reached THEN outcome[k] ELSE "skipped"],
         raised   |-> IF bad = {} THEN "none" ELSE "AttributeError"]

\* ================================================ the store as an API
\* the store reads nothing but the id of an item
StoreItems == RawItems

cycleVars == <<cfg, pc, raw, new_items, enriched, to_notify, slack, calls,
               result, once, dive_in, fetched, outcomes, email, enrichCnt,
               notifyCnt>>

IdleCycle ==
    /\ pc = "idle" /\ raw = <<>> /\ new_items = <<>> /\ enriched = <<>>
    /\ to_notify = <<>> /\ slack = <<>> /\ calls = <<>> /\ result = 0
    /\ once = FALSE /\ dive_in = <<>> /\ fetched = {}
    /\ outcomes = <<>> /\ email = NoEmail
    /\ enrichCnt = [i \in Ids |-> 0] /\ notifyCnt = [i \in Ids |-> 0]

InitStore ==
    /\ cfg = Config(6, 8, 8, 3)
    /\ db = EmptyDb /\ clock = 0
    /\ op = "none" /\ args = <<>> /\ ret = <<>> /\ err = "none"
    /\ prev = FALSE /\ marked = {}
    /\ IdleCycle /\ RestIdle

CallFilterNew ==
    \E items \in SeqsUpTo(StoreItems, MaxItems) :
        LET r == filter_new(db, items)
        IN  /\ op' = "filter_new" /\ args' = items
            /\ prev' = (op = "filter_new" /\ args = items)
            /\ ret' = r.ret /\ db' = r.db /\ err' = "none"
            /\ UNCHANGED <<clock, marked>>
            /\ UNCHANGED cycleVars
            /\ UNCHANGED restVars

CallMarkSeen ==
    \E items \in SeqsUpTo(StoreItems, MaxItems) :
        LET r == mark_seen(db, items, clock)
        IN  /\ op' = "mark_seen" /\ args' = items
            /\ prev' = (op = "mark_seen" /\ args = items)
            /\ db' = r.db /\ err' = r.err
            /\ marked' = IF r.err = "none"
                         THEN marked \cup {items[k].id : k \in DOMAIN items}
                         ELSE marked
            /\ ret' = <<>>
            /\ UNCHANGED clock
            /\ UNCHANGED cycleVars
            /\ UNCHANGED restVars

\* time passes between two calls
Tick ==
    /\ clock < MaxClock
    /\ clock' = clock + 1
    /\ UNCHANGED <<db, op, args, ret, err, prev, marked>>
    /\ UNCHANGED cycleVars
    /\ UNCHANGED restVars

NextStore == CallFilterNew \/ CallMarkSeen \/ Tick

SpecStore == InitStore /\ [][NextStore]_vars

\* ============================================ the store with its cleanup
\* the `days` a caller passes: a day, or the default
PruneDays == {1, DEDUP_TTL_DAYS}

\* prune_old_entries(days)
CallPrune ==
    \E days \in PruneDays :
        LET r == prune_old_entries(db, days, clock)
        IN  /\ op' = "prune_old_entries" /\ args' = <<[days |-> days]>>
            /\ prev' = FALSE
            /\ db' = r.db /\ ret' = r.ret /\ err' = "none"
            /\ UNCHANGED <<clock, marked>>
            /\ UNCHANGED cycleVars
            /\ UNCHANGED restVars

\* run_cycle as the store sees it: filter_new(raw) and, unless nothing is new
\* or the cycle ends before it gets there, mark_seen(new_items)
CallRunCycle ==
    \E items \in SeqsUpTo(StoreItems, MaxItems), reached \in BOOLEAN :
        LET f == filter_new(db, items)
            r == mark_seen(f.db, f.ret, clock)
        IN  /\ op' = "run_cycle" /\ args' = <<>>
            /\ prev' = FALSE
            /\ ret' = <<>>
            /\ db' = IF reached /\ f.ret # <<>> THEN r.db ELSE f.db
            /\ err' = "none"
            /\ UNCHANGED <<clock, marked>>
            /\ UNCHANGED cycleVars
            /\ UNCHANGED restVars

\* the process is down for DEDUP_TTL_DAYS days
Ttl ==
    /\ clock < DEDUP_TTL_DAYS
    /\ clock' = clock + DEDUP_TTL_DAYS
    /\ UNCHANGED <<db, op, args, ret, err, prev, marked>>
    /\ UNCHANGED cycleVars
    /\ UNCHANGED restVars

\* filter_new on its own is the run_cycle that ends before mark_seen
NextPrune == CallMarkSeen \/ CallRunCycle \/ CallPrune \/ Tick \/ Ttl

SpecPrune == InitStore /\ [][NextPrune]_vars

\* ------------------------------------------------------------------ C2
NotMarked(item) == item.id \notin marked
NotInStore(item) == sha256(item.id) \notin DOMAIN db.seen_items

\* C2: filter_new returns exactly the input items whose fingerprint is not in
\* the store, in input order: items passed to mark_seen before are excluded,
\* items never marked are included, and the rows of the store are unchanged.
C2_FilterNewPartitions ==
    /\ [](op = "filter_new" =>
            /\ ret = SelectSeq(args, NotInStore)
            /\ ret = SelectSeq(args, NotMarked))
    /\ [][op' = "filter_new" => db'.seen_items = db.seen_items]_vars

\* a mixed batch: one item excluded, one returned
C2_Witness ==
    /\ op = "filter_new" /\ Len(args) = 2 /\ Len(ret) = 1
    /\ args[1].id \in marked /\ ret[1] = args[2]

\* ------------------------------------------------------------------ C3
\* C3: a second mark_seen with the same items leaves the fingerprints and the
\* seen_at of every row as the first call left them, and raises nothing.
C3_MarkSeenIdempotent ==
    [][(op = "mark_seen" /\ err = "none" /\ op' = "mark_seen" /\ args' = args)
         => (db' = db /\ err' = "none")]_vars

\* the same non-empty list was marked twice, the second time at a later time
C3_Witness ==
    /\ op = "mark_seen" /\ prev /\ args # <<>>
    /\ \E fp \in DOMAIN db.seen_items : db.seen_items[fp] < clock

\* ============================================================ run_cycle
\* what the LLM answers for one item of a batch
TriageResults ==
    {[object |-> TRUE,  quoted |-> FALSE, relevant |-> FALSE, severity |-> 0,  topics |-> <<>>],
     [object |-> TRUE,  quoted |-> FALSE, relevant |-> TRUE,  severity |-> 5,  topics |-> <<"CVE">>],
     [object |-> TRUE,  quoted |-> FALSE, relevant |-> TRUE,  severity |-> 9,  topics |-> <<"CVE">>],
     [object |-> TRUE,  quoted |-> FALSE, relevant |-> TRUE,  severity |-> 9,  topics |-> <<NonString>>],
     [object |-> TRUE,  quoted |-> FALSE, relevant |-> TRUE,  severity |-> 11, topics |-> <<"CVE">>],
     [object |-> FALSE, quoted |-> FALSE, relevant |-> FALSE, severity |-> 0,  topics |-> <<>>]}

\* what a call that returned a response is billed (input and output tokens
\* times their prices), in units of the smallest bill
CallCosts == {1, 2}

\* what one LLM call of enrich does for a batch of n items: it raises, or it
\* returns a billed response whose text is no JSON or is a JSON array
Responses(n) ==
    {[kind |-> "raise", results |-> <<>>, cost |-> 0]}
    \cup {[kind |-> "bad_json", results |-> <<>>, cost |-> c] : c \in CallCosts}
    \cup {[kind |-> "ok", results |-> r, cost |-> c] :
            r \in SeqsUpTo(TriageResults, n), c \in CallCosts}

\* the calls of an enrich as the cycle's log shows them: date and spend
Metered(made) ==
    [k \in DOMAIN made |-> [date |-> made[k].date, spent |-> made[k].spent]]

DiveOutcomes == {"ok", "fetch_none", "analysis_none", "analysis_not_object"}

Count(s, x) == Cardinality({k \in DOMAIN s : s[k] = x})

Bump(cnt, items) ==
    [i \in Ids |-> Min(2, cnt[i] + Cardinality({k \in DOMAIN items : items[k].id = i}))]

storeApiVars == <<ret, err, prev, marked>>

\* return from run_cycle: main(once) ends, the loop of main goes round again
Return(n) ==
    /\ result' = n
    /\ pc' = IF once THEN "exit" ELSE "idle"

\* run_cycle raises e: main(once) lets it end the process, the loop of main
\* catches it (except Exception: high_sev_count = 0) and goes round again
Raise(e) ==
    /\ err' = e
    /\ result' = IF once THEN result ELSE 0
    /\ pc' = IF once THEN "exit" ELSE "idle"

\* 1. raw = await collect_all()
StepCollectUpTo(n) ==
    /\ pc = "idle"
    /\ \E items \in SeqsUpTo(RawItems, n) : raw' = items
    /\ pc' = "filter"
    /\ calls' = <<"collect_all">>
    /\ new_items' = <<>> /\ enriched' = <<>> /\ to_notify' = <<>>
    /\ slack' = <<>> /\ dive_in' = <<>> /\ fetched' = {}
    /\ outcomes' = <<>> /\ email' = NoEmail
    /\ op' = "none" /\ args' = <<>> /\ err' = "none"
    /\ handled' = handled \cup {to_notify[k].id : k \in DOMAIN to_notify}
    /\ UNCHANGED <<cfg, db, clock, result, once, enrichCnt, notifyCnt>>
    /\ UNCHANGED <<ret, prev, marked>>
    /\ UNCHANGED <<mainVars, llm, coll, today, daily_cost, skipped, ioVars>>

StepCollect == StepCollectUpTo(MaxItems)

\* a variant: no early return, the empty list goes on to enrich
StepFilter_NoEarlyReturn ==
    /\ pc = "filter"
    /\ LET r == filter_new(db, raw)
       IN  /\ new_items' = r.ret
           /\ db' = r.db
    /\ pc' = "enrich"
    /\ calls' = Append(calls, "filter_new")
    /\ UNCHANGED <<cfg, clock, raw, enriched, to_notify, slack, result, once, outcomes, email,
                   dive_in, fetched, op, args, enrichCnt, notifyCnt>>
    /\ UNCHANGED storeApiVars
    /\ UNCHANGED restVars

\* 2. new_items = filter_new(raw); if not new_items: return 0
StepFilter ==
    /\ pc = "filter"
    /\ LET r == filter_new(db, raw)
       IN  /\ new_items' = r.ret
           /\ db' = r.db
           /\ IF r.ret = <<>> THEN Return(0)
              ELSE pc' = "enrich" /\ UNCHANGED result
    /\ calls' = Append(calls, "filter_new")
    /\ UNCHANGED <<cfg, clock, raw, enriched, to_notify, slack, once, outcomes, email, dive_in, fetched,
                   op, args, enrichCnt, notifyCnt>>
    /\ UNCHANGED storeApiVars
    /\ UNCHANGED restVars

\* 3. enriched = enrich(new_items)
StepEnrichOf(choices) ==
    /\ pc = "enrich"
    /\ \E responses \in choices :
           \E r \in {enrich(new_items, daily_cost, today,
                          cfg.DAILY_COST_LIMIT_USD, responses)} :
               /\ enriched' = r.out
               /\ daily_cost' = r.table
               /\ llm' = Metered(r.calls)
               /\ skipped' = skipped \cup SkippedItems(new_items, r.calls)
    /\ enrichCnt' = Bump(enrichCnt, new_items)
    /\ calls' = Append(calls, "enrich")
    /\ pc' = "mark_seen"
    /\ UNCHANGED <<cfg, db, clock, raw, new_items, to_notify, slack, result,
                   once, outcomes, email, dive_in, fetched, op, args, notifyCnt>>
    /\ UNCHANGED storeApiVars
    /\ UNCHANGED <<mainVars, coll, today, handled, ioVars>>

\* enriched = enrich(new_items), whatever each LLM call does
StepEnrich ==
    StepEnrichOf([1..NumBatches(new_items) -> Responses(Len(new_items))])

\* a variant: only the items triage kept are marked
StepMarkSeen_RelevantOnly ==
    /\ pc = "mark_seen"
    /\ db' = mark_seen(db, enriched, clock).db
    /\ op' = "mark_seen" /\ args' = enriched
    /\ calls' = Append(calls, "mark_seen")
    /\ pc' = "threshold"
    /\ UNCHANGED <<cfg, clock, raw, new_items, enriched, to_notify, slack,
                   result, once, outcomes, email, dive_in, fetched, enrichCnt, notifyCnt>>
    /\ UNCHANGED storeApiVars
    /\ UNCHANGED restVars

\* mark_seen(new_items)
\* a variant: only the items of the batches that were submitted are marked
StepMarkSeen_OnlySubmitted ==
    /\ pc = "mark_seen"
    /\ db' = mark_seen(db, SubSeq(new_items, 1, Min(Len(new_items),
                                                    Len(llm) * BATCH_SIZE)),
                       clock).db
    /\ op' = "mark_seen" /\ args' = new_items
    /\ calls' = Append(calls, "mark_seen")
    /\ pc' = "threshold"
    /\ UNCHANGED <<cfg, clock, raw, new_items, enriched, to_notify, slack,
                   result, once, outcomes, email, dive_in, fetched, enrichCnt, notifyCnt>>
    /\ UNCHANGED storeApiVars
    /\ UNCHANGED restVars

StepMarkSeen ==
    /\ pc = "mark_seen"
    /\ db' = mark_seen(db, new_items, clock).db
    /\ op' = "mark_seen" /\ args' = new_items
    /\ calls' = Append(calls, "mark_seen")
    /\ pc' = "threshold"
    /\ UNCHANGED <<cfg, clock, raw, new_items, enriched, to_notify, slack,
                   result, once, outcomes, email, dive_in, fetched, enrichCnt, notifyCnt>>
    /\ UNCHANGED storeApiVars
    /\ UNCHANGED restVars

\* a variant: strictly above the threshold
Notifiable_Strict(items, c) ==
    SelectByIndex(items,
        {k \in DOMAIN items : Get(items[k], "severity", 0) > c.SEVERITY_THRESHOLD})

\* [i for i in enriched if i.get("severity", 0) >= config.SEVERITY_THRESHOLD]
Notifiable(items, c) ==
    SelectByIndex(items,
        {k \in DOMAIN items : Get(items[k], "severity", 0) >= c.SEVERITY_THRESHOLD})

\* 4. to_notify = [...]; if not to_notify: return 0
StepThreshold ==
    /\ pc = "threshold"
    /\ to_notify' = Notifiable(enriched, cfg)
    /\ IF to_notify' = <<>> THEN Return(0)
       ELSE pc' = "deep_dive" /\ UNCHANGED result
    /\ UNCHANGED <<cfg, db, clock, raw, new_items, enriched, slack, calls,
                   once, outcomes, email, dive_in, fetched, op, args, enrichCnt, notifyCnt>>
    /\ UNCHANGED storeApiVars
    /\ UNCHANGED restVars

\* a variant: the deep-dive calls are recorded like the triage calls
StepDeepDive_Metered ==
    /\ pc = "deep_dive"
    /\ \E outcome \in [DOMAIN to_notify -> DiveOutcomes] :
           LET r == deep_dive(to_notify, cfg, outcome)
           IN  /\ fetched' = r.fetched
               /\ outcomes' = r.outcomes
               /\ daily_cost' =
                     IF \E k \in DOMAIN r.outcomes :
                            r.outcomes[k] \in {"ok", "analysis_none",
                                               "analysis_not_object"}
                     THEN add_db_cost(daily_cost, today, 1)
                     ELSE daily_cost
               /\ IF r.raised = "none"
                  THEN /\ to_notify' = r.results
                       /\ slack' = [k \in DOMAIN to_notify |-> "pending"]
                       /\ pc' = "slack"
                       /\ UNCHANGED <<result, err>>
                  ELSE /\ Raise(r.raised)
                       /\ UNCHANGED <<to_notify, slack>>
    /\ dive_in' = to_notify
    /\ calls' = Append(calls, "deep_dive")
    /\ UNCHANGED <<cfg, db, clock, raw, new_items, enriched, once, email,
                   op, args, enrichCnt, notifyCnt>>
    /\ UNCHANGED <<ret, prev, marked>>
    /\ UNCHANGED <<mainVars, llm, coll, today, skipped, handled, ioVars>>

\* 5. to_notify = await deep_dive(to_notify); then the gather is created.
\* When deep_dive raises, the assignment and the rest of the body are skipped.
StepDeepDive ==
    /\ pc = "deep_dive"
    /\ \E outcome \in [DOMAIN to_notify -> DiveOutcomes] :
           LET r == deep_dive(to_notify, cfg, outcome)
           IN  /\ fetched' = r.fetched
               /\ outcomes' = r.outcomes
               /\ IF r.raised = "none"
                  THEN /\ to_notify' = r.results
                       /\ slack' = [k \in DOMAIN to_notify |-> "pending"]
                       /\ pc' = "slack"
                       /\ UNCHANGED <<result, err>>
                  ELSE /\ Raise(r.raised)
                       /\ UNCHANGED <<to_notify, slack>>
    /\ dive_in' = to_notify
    /\ calls' = Append(calls, "deep_dive")
    /\ UNCHANGED <<cfg, db, clock, raw, new_items, enriched, once, email,
                   op, args, enrichCnt, notifyCnt>>
    /\ UNCHANGED <<ret, prev, marked>>
    /\ UNCHANGED restVars

\* _slack_payload joins the topics with ", ".join, which raises TypeError on
\* an element that is no string; send_slack calls it outside its try
PayloadRaises(item) == NonString \in Range(Get(item, "topics", <<>>))

\* how a POST to the webhook can fail: a status other than 200,
\* httpx.TimeoutException, any other exception
PostFailures == {"non200", "timeout", "exception"}

\* the send_slack call has returned
Returned == {"done", "failed", "stub"}

\* 6. asyncio.gather(*[send_slack(item) ...]): the tasks start in list order.
\* Without a webhook url the call logs a stub line and returns; with one it
\* builds the payload and waits for the POST.
SlackStart ==
    /\ pc = "slack"
    /\ \E k \in DOMAIN slack :
        /\ slack[k] = "pending"
        /\ \A j \in 1..(k - 1) : slack[j] # "pending"
        /\ slack' = [slack EXCEPT ![k] =
                        IF ~cfg.SLACK_WEBHOOK_URL THEN "stub"
                        ELSE IF PayloadRaises(to_notify[k]) THEN "raised"
                        ELSE "inflight"]
        /\ notifyCnt' = Bump(notifyCnt, <<to_notify[k]>>)
    /\ calls' = Append(calls, "send_slack")
    /\ UNCHANGED <<cfg, db, clock, pc, raw, new_items, enriched, to_notify,
                   result, once, outcomes, email, dive_in, fetched, op, args, enrichCnt>>
    /\ UNCHANGED storeApiVars
    /\ UNCHANGED restVars

\* one send_slack returns after a POST answered with status 200; the others
\* may still be waiting for the webhook
SlackFinish ==
    /\ pc = "slack"
    /\ \E k \in DOMAIN slack :
        /\ slack[k] = "inflight"
        /\ slack' = [slack EXCEPT ![k] = "done"]
    /\ UNCHANGED <<cfg, db, clock, pc, raw, new_items, enriched, to_notify,
                   calls, result, once, outcomes, email, dive_in, fetched, op, args, enrichCnt, notifyCnt>>
    /\ UNCHANGED storeApiVars
    /\ UNCHANGED restVars

\* a variant: a failed POST is raised out of send_slack
SlackFails_Propagates ==
    /\ pc = "slack"
    /\ \E k \in DOMAIN slack, failure \in PostFailures :
        /\ slack[k] = "inflight"
        /\ slack' = [slack EXCEPT ![k] = "raised"]
    /\ UNCHANGED <<cfg, db, clock, pc, raw, new_items, enriched, to_notify,
                   calls, result, once, outcomes, email, dive_in, fetched, op, args, enrichCnt, notifyCnt>>
    /\ UNCHANGED storeApiVars
    /\ UNCHANGED restVars

\* the POST of one send_slack fails: a status other than 200 is logged, the
\* two except branches log a timeout or any other exception; the call returns
SlackFails ==
    /\ pc = "slack"
    /\ \E k \in DOMAIN slack, failure \in PostFailures :
        /\ slack[k] = "inflight"
        /\ slack' = [slack EXCEPT ![k] = "failed"]
    /\ UNCHANGED <<cfg, db, clock, pc, raw, new_items, enriched, to_notify,
                   calls, result, once, outcomes, email, dive_in, fetched, op, args, enrichCnt, notifyCnt>>
    /\ UNCHANGED storeApiVars
    /\ UNCHANGED restVars

\* a send_slack raised: once every task has run its first step the gather
\* hands the exception to run_cycle, which skips send_email and raises
GatherRaises ==
    /\ pc = "slack"
    /\ \A k \in DOMAIN slack : slack[k] # "pending"
    /\ \E k \in DOMAIN slack : slack[k] = "raised"
    /\ Raise("TypeError")
    /\ UNCHANGED <<cfg, db, clock, raw, new_items, enriched, to_notify, slack,
                   calls, once, outcomes, email, dive_in, fetched, op, args,
                   enrichCnt, notifyCnt>>
    /\ UNCHANGED <<ret, prev, marked>>
    /\ UNCHANGED restVars

\* a variant: every notified item counts towards the spike
SpikeCount_All(items, c) == Len(items)

\* sum(1 for i in to_notify if i.get("severity", 0) >= config.SPIKE_SEVERITY_MIN)
SpikeCount(items, c) ==
    Cardinality({k \in DOMAIN items :
                    Get(items[k], "severity", 0) >= c.SPIKE_SEVERITY_MIN})

\* send_email(items) when the SMTP server accepts the digest: a stub line
\* without SMTP_HOST; otherwise the digest is built and sent inside one try.
\* Building the digest joins the topics, so a non-string topic raises
\* TypeError there, which the except branch logs and drops.
EmailState(items, c) ==
    IF ~c.SMTP_HOST THEN "stub"
    ELSE IF \E k \in DOMAIN items : PayloadRaises(items[k]) THEN "failed"
    ELSE "sent"

\* a variant: the gather is not awaited before the digest is sent
StepEmail_NotAwaited ==
    /\ pc = "slack"
    /\ \A k \in DOMAIN slack : slack[k] # "raised"
    /\ email' = [state |-> EmailState(to_notify, cfg), items |-> to_notify]
    /\ calls' = Append(calls, "send_email")
    /\ Return(SpikeCount(to_notify, cfg))
    /\ UNCHANGED <<cfg, db, clock, raw, new_items, enriched, to_notify, slack,
                   once, outcomes, dive_in, fetched, op, args, enrichCnt, notifyCnt>>
    /\ UNCHANGED storeApiVars
    /\ UNCHANGED restVars

\* the gather has returned; 7. send_email(to_notify); return the spike count
StepEmail ==
    /\ pc = "slack"
    /\ \A k \in DOMAIN slack : slack[k] \in Returned
    /\ email' = [state |-> EmailState(to_notify, cfg), items |-> to_notify]
    /\ calls' = Append(calls, "send_email")
    /\ Return(SpikeCount(to_notify, cfg))
    /\ UNCHANGED <<cfg, db, clock, raw, new_items, enriched, to_notify, slack,
                   once, outcomes, dive_in, fetched, op, args, enrichCnt, notifyCnt>>
    /\ UNCHANGED storeApiVars
    /\ UNCHANGED restVars

\* 7. send_email(to_notify) when the SMTP exchange raises (connect, starttls,
\* login, sendmail): except Exception logs it; the spike count is returned
StepEmailFails ==
    /\ pc = "slack"
    /\ \A k \in DOMAIN slack : slack[k] \in Returned
    /\ cfg.SMTP_HOST
    /\ email' = [state |-> "failed", items |-> to_notify]
    /\ calls' = Append(calls, "send_email")
    /\ Return(SpikeCount(to_notify, cfg))
    /\ UNCHANGED <<cfg, db, clock, raw, new_items, enriched, to_notify, slack,
                   once, outcomes, dive_in, fetched, op, args, enrichCnt, notifyCnt>>
    /\ UNCHANGED storeApiVars
    /\ UNCHANGED restVars

\* a cycle whose webhook and SMTP server answer
NextCycle ==
    \/ StepCollect \/ StepFilter \/ StepEnrich \/ StepMarkSeen \/ StepThreshold
    \/ StepDeepDive \/ SlackStart \/ SlackFinish \/ GatherRaises \/ StepEmail

StoreApiIdle ==
    /\ op = "none" /\ args = <<>> /\ ret = <<>> /\ err = "none"
    /\ prev = FALSE /\ marked = {}

CycleLocalsIdle ==
    /\ pc = "idle" /\ raw = <<>> /\ new_items = <<>> /\ enriched = <<>>
    /\ to_notify = <<>> /\ slack = <<>> /\ calls = <<>> /\ result = 0
    /\ dive_in = <<>> /\ fetched = {}
    /\ outcomes = <<>> /\ email = NoEmail
    /\ enrichCnt = [i \in Ids |-> 0] /\ notifyCnt = [i \in Ids |-> 0]

\* continuous mode, default thresholds, both channels configured, a daily
\* limit that one billed call reaches, no database file yet
InitCycle ==
    /\ cfg = Config(6, 8, 8, 3) @@ Channels(TRUE, TRUE) @@ Budget(1)
    /\ db = EmptyDb /\ clock = 0
    /\ once = FALSE
    /\ StoreApiIdle /\ CycleLocalsIdle /\ RestIdle

SpecCycle == InitCycle /\ [][NextCycle]_vars

\* python agent.py --once: any configuration of the two severity settings,
\* started on a fresh database or on one a previous run has written
EnvThreshold == {0, 5, 9, 11}
EnvSpikeMin  == {4, 9}

InitOnce ==
    /\ cfg \in {Config(t, m, 8, 3) @@ Channels(TRUE, TRUE) @@ Budget(2) :
                  t \in EnvThreshold, m \in EnvSpikeMin}
    /\ db \in {EmptyDb, mark_seen(EmptyDb, <<[id |-> 1, url |-> 1]>>, 0).db}
    /\ clock = 0
    /\ once = TRUE
    /\ StoreApiIdle /\ CycleLocalsIdle /\ RestIdle

SpecOnce == InitOnce /\ [][NextCycle]_vars

\* python agent.py --once with default thresholds, each channel configured
\* or left empty
InitNotify ==
    /\ cfg \in {Config(6, 8, 8, 3) @@ Channels(s, h) @@ Budget(2) :
                  s \in BOOLEAN, h \in BOOLEAN}
    /\ db = EmptyDb /\ clock = 0
    /\ once = TRUE
    /\ StoreApiIdle /\ CycleLocalsIdle /\ RestIdle

\* the cycle with deliveries that fail
NextNotify == NextCycle \/ SlackFails \/ StepEmailFails

SpecNotify == InitNotify /\ [][NextNotify]_vars

\* ================================================= deep_dive on its own
\* items as deep_dive reads them: a url and a severity, which may be missing;
\* two items may carry the same url
DiveItems ==
    {[id |-> u, url |-> u, severity |-> v] : u \in Ids, v \in {7, 8, 9}}
    \cup {[id |-> u, url |-> u] : u \in Ids}

EnvDiveMin == {8, 9}
EnvDiveMax == {0, 2}

InitDive ==
    /\ cfg \in {Config(6, 8, f, m) : f \in EnvDiveMin, m \in EnvDiveMax}
    /\ to_notify \in SeqsUpTo(DiveItems, MaxItems)
    /\ pc = "deep_dive"
    /\ db = EmptyDb /\ clock = 0 /\ once = TRUE
    /\ StoreApiIdle /\ RestIdle
    /\ raw = <<>> /\ new_items = <<>> /\ enriched = <<>>
    /\ slack = <<>> /\ calls = <<>> /\ result = 0
    /\ dive_in = <<>> /\ fetched = {}
    /\ outcomes = <<>> /\ email = NoEmail
    /\ enrichCnt = [i \in Ids |-> 0] /\ notifyCnt = [i \in Ids |-> 0]

NextDive == StepDeepDive

SpecDive == InitDive /\ [][NextDive]_vars

\* ================================================= main: the spike loop
MaxTime == 300      \* the wall clock is observed up to this second

\* the spike and poll settings computed at import time
SpikeConfig(envTrigger, envDuration, envSpikePoll, envPoll) ==
    [SPIKE_TRIGGER_COUNT    |-> Max(1, envTrigger),
     SPIKE_DURATION_SECONDS |-> Max(60, envDuration),
     SPIKE_POLL_SECONDS     |-> Max(30, envSpikePoll),
     POLL_INTERVAL_SECONDS  |-> Max(60, envPoll)]

\* a variant: a trigger while in SPIKE extends the running expiry
Trigger_Extends(until, count, t, c) ==
    IF count >= c.SPIKE_TRIGGER_COUNT
    THEN IF until = None THEN t + c.SPIKE_DURATION_SECONDS
         ELSE until + c.SPIKE_DURATION_SECONDS
    ELSE until

\* if high_sev_count >= SPIKE_TRIGGER_COUNT: spike_until = now + duration
Trigger(until, count, t, c) ==
    IF count >= c.SPIKE_TRIGGER_COUNT THEN t + c.SPIKE_DURATION_SECONDS
    ELSE until

\* `spike_until and now < spike_until`
InSpike(until, t) == until # None /\ t < until

\* a variant: the mode is dropped half a minute before it expires
Revert_Early(until, t) ==
    IF until # None /\ t + 30 >= until THEN None ELSE until

\* a variant: an expired expiry is kept
Revert_NeverClears(until, t) == until

\* else-branch: if spike_until and now >= spike_until: spike_until = None
Revert(until, t) ==
    IF InSpike(until, t) THEN until
    ELSE IF until # None /\ t >= until THEN None ELSE until

\* a variant: the spike interval is used whenever an expiry is set
SleepFor_AnyExpiry(until, t, c) ==
    IF until # None THEN c.SPIKE_POLL_SECONDS ELSE c.POLL_INTERVAL_SECONDS

\* sleep_for = SPIKE_POLL_SECONDS in spike mode, else POLL_INTERVAL_SECONDS
SleepFor(until, t, c) ==
    IF InSpike(until, t) THEN c.SPIKE_POLL_SECONDS ELSE c.POLL_INTERVAL_SECONDS

\* how long one run_cycle takes, in seconds
CycleSeconds == {0, 30}

\* what the loop body of main never writes
mainFrame == <<cfg, db, clock, op, args, ret, prev, marked, raw, new_items,
               enriched, to_notify, slack, calls, once, dive_in, fetched,
               outcomes, email, enrichCnt, notifyCnt, llm, coll, costVars,
               ioVars>>

\* high_sev_count = await run_cycle()
CycleReturns ==
    /\ pc = "run_cycle"
    /\ \E n \in 0..MaxItems : result' = n
    /\ \E d \in CycleSeconds :
          utc_now + d <= MaxTime /\ utc_now' = utc_now + d
    /\ err' = "none"
    /\ pc' = "evaluate"
    /\ UNCHANGED <<spike_until, sleep_for, prev_until, trigger_at>>
    /\ UNCHANGED mainFrame

\* a variant: the count of the cycle before is kept when a cycle raises
CycleRaises_StaleCount ==
    /\ pc = "run_cycle"
    /\ \E d \in CycleSeconds :
          utc_now + d <= MaxTime /\ utc_now' = utc_now + d
    /\ err' = "Exception"
    /\ pc' = "evaluate"
    /\ UNCHANGED <<result, spike_until, sleep_for, prev_until, trigger_at>>
    /\ UNCHANGED mainFrame

\* except Exception: log, high_sev_count = 0
CycleRaises ==
    /\ pc = "run_cycle"
    /\ \E d \in CycleSeconds :
          utc_now + d <= MaxTime /\ utc_now' = utc_now + d
    /\ err' = "Exception"
    /\ result' = 0
    /\ pc' = "evaluate"
    /\ UNCHANGED <<spike_until, sleep_for, prev_until, trigger_at>>
    /\ UNCHANGED mainFrame

\* except KeyboardInterrupt: break
CycleInterrupted ==
    /\ pc = "run_cycle"
    /\ err' = "KeyboardInterrupt"
    /\ pc' = "stopped"
    /\ UNCHANGED <<result, mainVars>>
    /\ UNCHANGED mainFrame

\* now = datetime.now(timezone.utc); the trigger, then the branch that picks
\* sleep_for and clears an expired spike_until
MainEvaluate ==
    /\ pc = "evaluate"
    /\ LET until == Trigger(spike_until, result, utc_now, cfg)
       IN  /\ spike_until' = Revert(until, utc_now)
           /\ sleep_for' = SleepFor(until, utc_now, cfg)
    /\ prev_until' = spike_until
    /\ trigger_at' = IF result >= cfg.SPIKE_TRIGGER_COUNT THEN utc_now
                     ELSE trigger_at
    /\ pc' = "sleep"
    /\ UNCHANGED <<utc_now, result, err>>
    /\ UNCHANGED mainFrame

\* await asyncio.sleep(sleep_for)
MainSleep ==
    /\ pc = "sleep"
    /\ utc_now + sleep_for <= MaxTime
    /\ utc_now' = utc_now + sleep_for
    /\ pc' = "run_cycle"
    /\ UNCHANGED <<result, err, spike_until, sleep_for, prev_until, trigger_at>>
    /\ UNCHANGED mainFrame

NextMain ==
    \/ CycleReturns \/ CycleRaises \/ CycleInterrupted \/ MainEvaluate
    \/ MainSleep

EnvTrigger   == {0, 2}
EnvDuration  == {0, 120}
EnvSpikePoll == {0, 90}
EnvPoll      == {0, 150}

\* continuous mode under any of the spike settings
InitMain ==
    /\ cfg \in {Config(6, 8, 8, 3) @@ SpikeConfig(g, d, s, p) :
                  g \in EnvTrigger, d \in EnvDuration, s \in EnvSpikePoll,
                  p \in EnvPoll}
    /\ db = EmptyDb /\ clock = 0
    /\ once = FALSE
    /\ StoreApiIdle /\ RestIdle
    /\ pc = "run_cycle" /\ raw = <<>> /\ new_items = <<>> /\ enriched = <<>>
    /\ to_notify = <<>> /\ slack = <<>> /\ calls = <<>> /\ result = 0
    /\ dive_in = <<>> /\ fetched = {}
    /\ outcomes = <<>> /\ email = NoEmail
    /\ enrichCnt = [i \in Ids |-> 0] /\ notifyCnt = [i \in Ids |-> 0]

SpecMain == InitMain /\ [][NextMain]_vars

\* the loop keeps going: run_cycle returns or raises, the evaluation that
\* follows is synchronous, and asyncio.sleep returns when its time is up
SpecMainFair ==
    /\ InitMain /\ [][NextMain]_vars
    /\ WF_vars(CycleReturns \/ CycleRaises)
    /\ WF_vars(MainEvaluate)
    /\ WF_vars(MainSleep)

\* ==================================================== enrich on its own
\* lists of one batch, of exactly one batch, and of two batches
EnrichLens == {1, MaxItems, BATCH_SIZE, BATCH_SIZE + 1}

EnrichInputs ==
    {[k \in 1..n |-> [id |-> 1 + (k % NumIds), url |-> 1 + (k % NumIds),
                      title |-> k]] :
        n \in EnrichLens}

\* {"relevant": true, "summary": "S", "severity": "8", "topics": []}
Quoted8 == [object |-> TRUE, quoted |-> TRUE, relevant |-> TRUE, severity |-> 8, topics |-> <<>>]
Relevant9 == [object |-> TRUE, quoted |-> FALSE, relevant |-> TRUE, severity |-> 9, topics |-> <<"CVE">>]
NotAnObject == [object |-> FALSE, quoted |-> FALSE, relevant |-> FALSE, severity |-> 0, topics |-> <<>>]

\* what the LLM call for a batch of n items may do: raise, answer text that
\* is no JSON, or answer a JSON array: n or n - 1 equal results, or a result
\* followed by elements that are no objects
BatchResponses(n) ==
    {[kind |-> "raise", results |-> <<>>, cost |-> 0],
     [kind |-> "bad_json", results |-> <<>>, cost |-> 1]}
    \cup {[kind |-> "ok", results |-> [k \in 1..m |-> r], cost |-> c] :
            m \in {n - 1, n}, r \in TriageResults \cup {Quoted8}, c \in CallCosts}
    \cup {[kind |-> "ok", cost |-> 1,
           results |-> [k \in 1..n |-> IF k = 1 THEN Relevant9 ELSE NotAnObject]]}

BatchLen(items, b) == Min(BATCH_SIZE, Len(items) - (b - 1) * BATCH_SIZE)

\* for each batch from b on, one of the things its LLM call may do
RECURSIVE ResponseLists(_, _)
ResponseLists(items, b) ==
    IF b > NumBatches(items) THEN {<<>>}
    ELSE {<<r>> \o rest : r \in BatchResponses(BatchLen(items, b)),
                          rest \in ResponseLists(items, b + 1)}

\* enrich(items), called as the tests call it
EnrichCall ==
    /\ pc = "enrich_call"
    /\ \E responses \in ResponseLists(new_items, 1) :
           \E r \in {enrich(new_items, daily_cost, today,
                          cfg.DAILY_COST_LIMIT_USD, responses)} :
               /\ enriched' = r.out
               /\ daily_cost' = r.table
               /\ llm' = r.calls
               /\ skipped' = skipped \cup SkippedItems(new_items, r.calls)
    /\ pc' = "enriched"
    /\ UNCHANGED <<cfg, db, clock, op, args, ret, err, prev, marked, raw,
                   new_items, to_notify, slack, calls, result, once, dive_in,
                   fetched, outcomes, email, enrichCnt, notifyCnt, coll>>
    /\ UNCHANGED <<mainVars, today, handled, ioVars>>

NextEnrich == EnrichCall

\* DAILY_COST_LIMIT_USD as the environment gives it, in units of CallCosts
EnvCostLimit == {0, 1, 3}

\* the daily_cost table as earlier calls can have left it: no row, or a total
\* for yesterday, for today or for both
CostTables == UNION {[D -> {1, 3}] : D \in SUBSET {0, 1}}

\* any limit, any table; today is day 1
InitEnrich ==
    /\ cfg \in {Config(6, 8, 8, 3) @@ Budget(l) : l \in EnvCostLimit}
    /\ new_items \in EnrichInputs
    /\ pc = "enrich_call"
    /\ db = EmptyDb /\ clock = 0 /\ once = TRUE
    /\ StoreApiIdle
    /\ MainIdle /\ llm = <<>> /\ coll = CollIdle
    /\ today = 1 /\ daily_cost \in CostTables /\ skipped = {}
    /\ handled = {}
    /\ http = HttpIdle /\ nav = NavIdle
    /\ raw = <<>> /\ enriched = <<>> /\ to_notify = <<>>
    /\ slack = <<>> /\ calls = <<>> /\ result = 0
    /\ dive_in = <<>> /\ fetched = {}
    /\ outcomes = <<>> /\ email = NoEmail
    /\ enrichCnt = [i \in Ids |-> 0] /\ notifyCnt = [i \in Ids |-> 0]

SpecEnrich == InitEnrich /\ [][NextEnrich]_vars

\* ================================================ collect_all on its own
\* what source s serves when it answers: MaxItems items; NVD and CISA KEV
\* name CVEs by the same url, so ids repeat across sources
Served(s) ==
    [k \in 1..MaxItems |->
        [id |-> 1 + ((s + k) % NumIds), url |-> 1 + ((s + k) % NumIds),
         source |-> s]]

\* the except branches of a fetcher: httpx.TimeoutException (re-raised by
\* _get_with_retry after the last attempt), httpx.HTTPStatusError (from
\* raise_for_status), any other Exception
FetchFailures == {"timeout", "http_error", "exception"}

\* the items a fetcher has appended when it leaves through an except branch.
\* A timeout or an error status comes before any item is built. The loop of
\* fetch_nvd_cves indexes into the payload (d["value"], d["lang"], desc[:120])
\* and can raise on a later vulnerability, after earlier ones were appended;
\* the loops over RSS entries and KEV entries only call .get and format.
Appended(s, failure) ==
    IF s = NVD /\ failure = "exception"
    THEN {SubSeq(Served(s), 1, n) : n \in 0..(MaxItems - 1)}
    ELSE {<<>>}

\* one source is fetched: it answers, or fails in one of the three ways
Fetch(s) ==
    \/ coll' = [coll EXCEPT !.status[s] = "ok", !.got[s] = Served(s)]
    \/ \E failure \in FetchFailures :
        \E items \in Appended(s, failure) :
            coll' = [coll EXCEPT !.status[s] = failure, !.got[s] = items]

collFrame == <<cfg, db, clock, op, args, ret, err, prev, marked, new_items,
               enriched, to_notify, slack, calls, result, once, dive_in,
               fetched, outcomes, email, enrichCnt, notifyCnt, llm, costVars,
               ioVars>>

\* a variant: the first feed that fails ends the loop over RSS_FEEDS
FetchFeed_StopsAtFailure ==
    /\ pc = "rss"
    /\ \E s \in 1..NumFeeds :
        /\ coll.status[s] = "pending"
        /\ \A j \in 1..(s - 1) : coll.status[j] # "pending"
        /\ Fetch(s)
        /\ pc' = IF s = NumFeeds \/ coll'.status[s] # "ok" THEN "gather" ELSE "rss"
    /\ UNCHANGED raw
    /\ UNCHANGED collFrame
    /\ UNCHANGED mainVars

\* fetch_rss_feeds: the feeds one after the other, in the order of RSS_FEEDS
FetchFeed ==
    /\ pc = "rss"
    /\ \E s \in 1..NumFeeds :
        /\ coll.status[s] = "pending"
        /\ \A j \in 1..(s - 1) : coll.status[j] # "pending"
        /\ Fetch(s)
        /\ pc' = IF s = NumFeeds THEN "gather" ELSE "rss"
    /\ UNCHANGED raw
    /\ UNCHANGED collFrame
    /\ UNCHANGED mainVars

\* fetch_nvd_cves, one of the tasks of the gather
FetchNvd ==
    /\ pc = "gather"
    /\ coll.status[NVD] = "pending"
    /\ Fetch(NVD)
    /\ UNCHANGED <<pc, raw>>
    /\ UNCHANGED collFrame
    /\ UNCHANGED mainVars

\* fetch_cisa_kev, one of the tasks of the gather
FetchCisa ==
    /\ pc = "gather"
    /\ coll.status[CISA] = "pending"
    /\ Fetch(CISA)
    /\ UNCHANGED <<pc, raw>>
    /\ UNCHANGED collFrame
    /\ UNCHANGED mainVars

\* the lists of sources lo..hi, one after the other
RECURSIVE Concat(_, _, _)
Concat(got, lo, hi) ==
    IF lo > hi THEN <<>> ELSE got[lo] \o Concat(got, lo + 1, hi)

\* the gather has returned (fetch_reddit is a stub that returns []);
\* return rss + nvd + cisa + reddit
CollectReturn ==
    /\ pc = "gather"
    /\ coll.status[NVD] # "pending" /\ coll.status[CISA] # "pending"
    /\ raw' = Concat(coll.got, 1, NumFeeds) \o coll.got[NVD] \o coll.got[CISA] \o <<>>
    /\ pc' = "collected"
    /\ UNCHANGED coll
    /\ UNCHANGED collFrame
    /\ UNCHANGED mainVars

NextCollect == FetchFeed \/ FetchNvd \/ FetchCisa \/ CollectReturn

InitCollect ==
    /\ cfg = Config(6, 8, 8, 3)
    /\ pc = "rss"
    /\ db = EmptyDb /\ clock = 0 /\ once = TRUE
    /\ StoreApiIdle /\ RestIdle
    /\ raw = <<>> /\ new_items = <<>> /\ enriched = <<>> /\ to_notify = <<>>
    /\ slack = <<>> /\ calls = <<>> /\ result = 0
    /\ dive_in = <<>> /\ fetched = {}
    /\ outcomes = <<>> /\ email = NoEmail
    /\ enrichCnt = [i \in Ids |-> 0] /\ notifyCnt = [i \in Ids |-> 0]

SpecCollect == InitCollect /\ [][NextCollect]_vars

\* ========================================== _get_with_retry on its own
\* everything but the two helper calls, which these specifications leave alone
ioFrame == <<cfg, db, clock, op, args, ret, err, prev, marked, pc, raw,
             new_items, enriched, to_notify, slack, calls, result, once,
             dive_in, fetched, outcomes, email, enrichCnt, notifyCnt,
             mainVars, llm, coll, costVars>>

\* no cycle, no store call, no collection: only a helper is running
IoQuiet ==
    /\ cfg = Config(6, 8, 8, 3)
    /\ pc = "helper"
    /\ db = EmptyDb /\ clock = 0 /\ once = TRUE
    /\ StoreApiIdle /\ MainIdle /\ llm = <<>> /\ coll = CollIdle
    /\ today = 1 /\ daily_cost = <<>> /\ skipped = {}
    /\ handled = {}
    /\ raw = <<>> /\ new_items = <<>> /\ enriched = <<>> /\ to_notify = <<>>
    /\ slack = <<>> /\ calls = <<>> /\ result = 0
    /\ dive_in = <<>> /\ fetched = {}
    /\ outcomes = <<>> /\ email = NoEmail
    /\ enrichCnt = [i \in Ids |-> 0] /\ notifyCnt = [i \in Ids |-> 0]

\* the max_retries argument: the default 2, and smaller values
RetryArgs == {0, 1, 2}

\* what client.get does: a response with a status code, httpx.TimeoutException
\* or another exception (httpx.ConnectError)
GetStatuses == {200, 404, 429, 500, 502, 503}

GetOutcomes ==
    {[kind |-> "response", status |-> s] : s \in GetStatuses}
    \cup {[kind |-> "TimeoutException", status |-> 0],
          [kind |-> "ConnectError", status |-> 0]}

\* resp.status_code in (429, 500, 503)
RetriedStatus(o) == o.kind = "response" /\ o.status \in {429, 500, 503}

\* wait = 2 ** attempt * 2
Backoff(attempt) == (2 ^ attempt) * 2

\* the call is made: attempt is the loop variable of range(max_retries + 1),
\* gets the outcomes of the GETs so far, waits the sleeps so far
RetryStart(max_retries) ==
    [state |-> "get", max_retries |-> max_retries, attempt |-> 0,
     gets |-> <<>>, waits |-> <<>>,
     result |-> [kind |-> "running", status |-> 0]]

\* the function is left: a response or None is returned, or an exception
\* leaves it
RetryEnd(h, res) == [h EXCEPT !.state = "done", !.result = res]

\* one pass of the loop body up to its await asyncio.sleep or its exit
RetryGet ==
    /\ http.state = "get"
    /\ \E o \in GetOutcomes :
         LET h == [http EXCEPT !.gets = Append(@, o)]
             again == h.attempt < h.max_retries
         IN  http' =
               IF o.kind = "response"
               THEN IF RetriedStatus(o) /\ again
                    THEN [h EXCEPT !.state = "sleep"]
                    ELSE RetryEnd(h, o)
               ELSE IF o.kind = "TimeoutException"
               THEN IF again
                    THEN [h EXCEPT !.state = "sleep"]
                    ELSE RetryEnd(h, o)
               ELSE RetryEnd(h, o)
    /\ UNCHANGED <<ioFrame, nav>>

\* await asyncio.sleep(wait), then the next value of range(max_retries + 1);
\* the return None that follows the loop is what an exhausted range leads to
RetrySleep ==
    /\ http.state = "sleep"
    /\ LET h == [http EXCEPT !.waits = Append(@, Backoff(http.attempt)),
                             !.attempt = @ + 1]
       IN  http' = IF h.attempt <= h.max_retries
                   THEN [h EXCEPT !.state = "get"]
                   ELSE RetryEnd(h, [kind |-> "None", status |-> 0])
    /\ UNCHANGED <<ioFrame, nav>>

NextRetry == RetryGet \/ RetrySleep

InitRetry ==
    /\ IoQuiet
    /\ http \in {RetryStart(n) : n \in RetryArgs}
    /\ nav = NavIdle

SpecRetry == InitRetry /\ [][NextRetry]_vars

\* =========================================== _fetch_content on its own
\* a URL as urlparse sees it: scheme and hostname ("" when there is none)
Schemes == {"https", "http"}
Hosts == {"news", "rebind", "intranet", "localhost", "nx", ""}
Urls == {[scheme |-> s, host |-> h] : s \in Schemes, h \in Hosts}

\* resp.headers.get("location", "") of a response without the header
NoLocation == [scheme |-> "", host |-> ""]

\* what socket.gethostbyname answers: an IPv4 address, of which the first two
\* octets are kept, or socket.gaierror
Address(a, b) == [ok |-> TRUE, ip |-> <<a, b>>]
LookupFails == [ok |-> FALSE, ip |-> <<0, 0>>]

\* the answers a host can get; one host changes its answer between lookups
Dns(host) ==
    CASE host = "news"      -> {Address(93, 184)}
      [] host = "rebind"    -> {Address(172, 32), Address(169, 254)}
      [] host = "intranet"  -> {Address(10, 0), Address(172, 16),
                                Address(192, 168), Address(100, 64)}
      [] host = "localhost" -> {Address(127, 0), Address(0, 0)}
      [] OTHER              -> {LookupFails}

\* addr in net for a net of _PRIVATE_NETWORKS (the IPv4 ones: gethostbyname
\* gives no IPv6 address)
InPrivateNetworks(ip) ==
    \/ ip[1] = 10
    \/ ip[1] = 172 /\ ip[2] \in 16..31
    \/ ip[1] = 192 /\ ip[2] = 168
    \/ ip[1] = 127
    \/ ip[1] = 169 /\ ip[2] = 254
    \/ ip[1] = 100 /\ ip[2] \in 64..127
    \/ ip[1] = 0

\* _is_safe_url, given what the lookup of the host answers
is_safe_url(url, answer) ==
    /\ url.scheme = "https"
    /\ url.host # ""
    /\ answer.ok
    /\ ~InPrivateNetworks(answer.ip)

\* the lookup is made only for an https URL with a host
Lookups(url) ==
    IF url.scheme = "https" /\ url.host # "" THEN Dns(url.host)
    ELSE {LookupFails}

max_redirects == 5

\* what client.get does: it raises (timeout or any other exception), or it
\* returns a response: its status, its location header, whether its
\* content-length exceeds _MAX_RESPONSE_BYTES, and whether the text extracted
\* from its body passes the paywall heuristics
Reply(kind, status, location, big, readable) ==
    [kind |-> kind, status |-> status, location |-> location, big |-> big,
     readable |-> readable]

FetchReplies ==
    {Reply("raise", 0, NoLocation, FALSE, FALSE)}
    \cup {Reply("response", 302, l, FALSE, r) :
            l \in Urls \cup {NoLocation}, r \in BOOLEAN}
    \cup {Reply("response", s, NoLocation, b, r) :
            s \in {200, 403}, b \in BOOLEAN, r \in BOOLEAN}
    \cup {Reply("response", 302, [scheme |-> "https", host |-> "news"],
                TRUE, TRUE)}

\* _is_paywalled(resp.status_code, text)
is_paywalled(reply) == reply.status \in {401, 402, 403} \/ ~reply.readable

\* the calls of _is_safe_url and client.get a call has made, in order
Checked(url, answer) ==
    [ev |-> "check", url |-> url, answer |-> answer,
     ok |-> is_safe_url(url, answer)]
Requested(url) ==
    [ev |-> "get", url |-> url, answer |-> LookupFails, ok |-> FALSE]

\* _fetch_content(url) is called
FetchStart(url) ==
    [state |-> "validate", current_url |-> url, hops |-> 0, trace |-> <<>>,
     result |-> "running"]

FetchEnd(n, res) == [n EXCEPT !.state = "done", !.result = res]

\* the code after the loop: the text, or None for a paywalled page
FetchResult(n, reply) ==
    FetchEnd(n, IF is_paywalled(reply) THEN "None" ELSE "text")

\* if not await _is_safe_url(url): return None
FetchValidate ==
    /\ nav.state = "validate"
    /\ \E answer \in Lookups(nav.current_url) :
         LET n == [nav EXCEPT !.trace =
                       Append(@, Checked(nav.current_url, answer))]
         IN  nav' = IF is_safe_url(nav.current_url, answer)
                    THEN [n EXCEPT !.state = "get"]
                    ELSE FetchEnd(n, "None")
    /\ UNCHANGED <<ioFrame, http>>

\* a variant: the redirect target is followed as it is
FetchGet_FollowsUnchecked ==
    /\ nav.state = "get"
    /\ \E reply \in FetchReplies :
         LET n == [nav EXCEPT !.trace = Append(@, Requested(nav.current_url)),
                              !.hops = @ + 1]
         IN  nav' =
               IF reply.kind = "raise" \/ reply.big THEN FetchEnd(n, "None")
               ELSE IF reply.status \in {301, 302, 303, 307, 308}
                       /\ reply.location # NoLocation
               THEN LET m == [n EXCEPT !.current_url = reply.location]
                    IN  IF m.hops <= max_redirects THEN m
                        ELSE FetchResult(m, reply)
               ELSE FetchResult(n, reply)
    /\ UNCHANGED <<ioFrame, http>>

\* one pass of for _ in range(max_redirects + 1): the GET of current_url,
\* the size limit, and for a redirect the validation of its target; after the
\* last pass, or at a break, the code after the loop
FetchGet ==
    /\ nav.state = "get"
    /\ \E reply \in FetchReplies :
         LET n == [nav EXCEPT !.trace = Append(@, Requested(nav.current_url)),
                              !.hops = @ + 1]
         IN  IF reply.kind = "raise" \/ reply.big
             THEN nav' = FetchEnd(n, "None")
             ELSE IF reply.status \in {301, 302, 303, 307, 308}
                     /\ reply.location # NoLocation
             THEN \E answer \in Lookups(reply.location) :
                    LET m == [n EXCEPT
                                !.trace =
                                   Append(@, Checked(reply.location, answer)),
                                !.current_url = reply.location]
                    IN  nav' =
                          IF ~is_safe_url(reply.location, answer)
                          THEN FetchEnd([m EXCEPT !.current_url =
                                                      nav.current_url], "None")
                          ELSE IF m.hops <= max_redirects THEN m
                          ELSE FetchResult(m, reply)
             ELSE nav' = FetchResult(n, reply)
    /\ UNCHANGED <<ioFrame, http>>

NextFetch == FetchValidate \/ FetchGet

InitFetch ==
    /\ IoQuiet
    /\ http = HttpIdle
    /\ nav \in {FetchStart(url) : url \in Urls}

SpecFetch == InitFetch /\ [][NextFetch]_vars

\* ============================== the process interrupted and started again
\* SIGINT or SIGTERM while a cycle runs: the cycle is abandoned where it is
\* (asyncio cancels what is awaited) and the process ends; a Slack post in
\* flight stays as it is, sent or not
Interrupt ==
    /\ pc \notin {"idle", "exit"}
    /\ pc' = "exit"
    /\ err' = "KeyboardInterrupt"
    /\ UNCHANGED <<cfg, db, clock, raw, new_items, enriched, to_notify, slack,
                   calls, result, once, outcomes, email, dive_in, fetched,
                   op, args, enrichCnt, notifyCnt>>
    /\ UNCHANGED <<ret, prev, marked>>
    /\ UNCHANGED restVars

\* a variant: the new process starts with an empty store
Restart_EmptyStore ==
    /\ pc = "exit"
    /\ pc' = "idle"
    /\ db' = EmptyDb
    /\ raw' = <<>> /\ new_items' = <<>> /\ enriched' = <<>> /\ to_notify' = <<>>
    /\ slack' = <<>> /\ calls' = <<>> /\ result' = 0
    /\ dive_in' = <<>> /\ fetched' = {}
    /\ outcomes' = <<>> /\ email' = NoEmail
    /\ op' = "none" /\ args' = <<>> /\ err' = "none"
    /\ llm' = <<>>
    /\ handled' = handled \cup {to_notify[k].id : k \in DOMAIN to_notify}
    /\ UNCHANGED <<cfg, clock, once, enrichCnt, notifyCnt>>
    /\ UNCHANGED <<ret, prev, marked>>
    /\ UNCHANGED <<mainVars, coll, today, daily_cost, skipped, ioVars>>

\* the agent is started again: nothing of the old process is left but the
\* SQLite file (seen_items and daily_cost)
Restart ==
    /\ pc = "exit"
    /\ pc' = "idle"
    /\ raw' = <<>> /\ new_items' = <<>> /\ enriched' = <<>> /\ to_notify' = <<>>
    /\ slack' = <<>> /\ calls' = <<>> /\ result' = 0
    /\ dive_in' = <<>> /\ fetched' = {}
    /\ outcomes' = <<>> /\ email' = NoEmail
    /\ op' = "none" /\ args' = <<>> /\ err' = "none"
    /\ llm' = <<>>
    /\ handled' = handled \cup {to_notify[k].id : k \in DOMAIN to_notify}
    /\ UNCHANGED <<cfg, db, clock, once, enrichCnt, notifyCnt>>
    /\ UNCHANGED <<ret, prev, marked>>
    /\ UNCHANGED <<mainVars, coll, today, daily_cost, skipped, ioVars>>

\* longest list a collection returns where the process can be interrupted
CrashItems == 1

NextCrash ==
    \/ StepCollectUpTo(CrashItems) \/ StepFilter \/ StepEnrich \/ StepMarkSeen
    \/ StepThreshold \/ StepDeepDive \/ SlackStart \/ SlackFinish
    \/ GatherRaises \/ StepEmail \/ Interrupt \/ Restart

\* continuous mode, both channels configured, a daily limit of two calls of
\* the smallest bill
InitCrash ==
    /\ cfg = Config(6, 8, 8, 3) @@ Channels(TRUE, TRUE) @@ Budget(2)
    /\ db = EmptyDb /\ clock = 0
    /\ once = FALSE
    /\ StoreApiIdle /\ CycleLocalsIdle /\ RestIdle

SpecCrash == InitCrash /\ [][NextCrash]_vars

\* ===================================== a cycle with more than one batch
\* a collection of one item more than a batch holds, all of them new
BulkRaw ==
    [k \in 1..(BATCH_SIZE + 1) |-> [id |-> NumIds + k, url |-> NumIds + k]]

StepCollectBulk ==
    /\ pc = "idle"
    /\ raw' = BulkRaw
    /\ pc' = "filter"
    /\ calls' = <<"collect_all">>
    /\ new_items' = <<>> /\ enriched' = <<>> /\ to_notify' = <<>>
    /\ slack' = <<>> /\ dive_in' = <<>> /\ fetched' = {}
    /\ outcomes' = <<>> /\ email' = NoEmail
    /\ op' = "none" /\ args' = <<>> /\ err' = "none"
    /\ handled' = handled \cup {to_notify[k].id : k \in DOMAIN to_notify}
    /\ UNCHANGED <<cfg, db, clock, result, once, enrichCnt, notifyCnt>>
    /\ UNCHANGED <<ret, prev, marked>>
    /\ UNCHANGED <<mainVars, llm, coll, today, daily_cost, skipped, ioVars>>

Irrelevant == [object |-> TRUE, quoted |-> FALSE, relevant |-> FALSE, severity |-> 0, topics |-> <<>>]

\* what the LLM call of a batch may do here: raise, answer text that is no
\* JSON, or answer an array of BATCH_SIZE results of which all but the first
\* say "not relevant" (zip drops the results a shorter batch has no item for)
BulkResponses ==
    {[kind |-> "raise", results |-> <<>>, cost |-> 0],
     [kind |-> "bad_json", results |-> <<>>, cost |-> 1]}
    \cup {[kind |-> "ok", cost |-> c,
           results |-> [k \in 1..BATCH_SIZE |-> IF k = 1 THEN r ELSE Irrelevant]] :
            r \in TriageResults, c \in CallCosts}

NextBulk ==
    \/ StepCollectBulk \/ StepFilter
    \/ StepEnrichOf([1..NumBatches(new_items) -> BulkResponses])
    \/ StepMarkSeen \/ StepThreshold \/ StepDeepDive \/ SlackStart
    \/ SlackFinish \/ GatherRaises \/ StepEmail

\* one cycle (--once) under any limit, after any earlier spend
InitBulk ==
    /\ cfg \in {Config(6, 8, 8, 3) @@ Channels(TRUE, TRUE) @@ Budget(l) :
                  l \in EnvCostLimit}
    /\ db = EmptyDb /\ clock = 0
    /\ once = TRUE
    /\ StoreApiIdle /\ CycleLocalsIdle
    /\ MainIdle /\ llm = <<>> /\ coll = CollIdle
    /\ today = 1 /\ daily_cost \in CostTables /\ skipped = {}
    /\ handled = {}
    /\ http = HttpIdle /\ nav = NavIdle

SpecBulk == InitBulk /\ [][NextBulk]_vars

\* ------------------------------------------------------------------ C1
\* C1: over any sequence of cycles and any collected lists, no id is
\* submitted to enrich more than once and none is notified more than once.
C1_ProcessedAtMostOnce ==
    \A i \in Ids : enrichCnt[i] <= 1 /\ notifyCnt[i] <= 1

\* ------------------------------------------------------------------ C4
EnrichReturned == "enrich" \in Range(calls)

\* C4: once enrich has returned, mark_seen is called exactly once, with the
\* whole list filter_new returned, and before the threshold is applied.
C4_MarksAllNewItems ==
    /\ ~EnrichReturned =>
          (Count(calls, "mark_seen") = 0 /\ op # "mark_seen")
    /\ pc = "mark_seen" =>
          (Count(calls, "mark_seen") = 0 /\ to_notify = <<>>)
    /\ (EnrichReturned /\ pc # "mark_seen") =>
          /\ Count(calls, "mark_seen") = 1
          /\ op = "mark_seen" /\ args = new_items
          /\ \A k \in DOMAIN new_items :
                sha256(new_items[k].id) \in DOMAIN db.seen_items

\* two new items, one of them dropped by triage, both marked
C4_Witness ==
    /\ pc = "threshold" /\ Len(new_items) = 2 /\ Len(enriched) = 1
    /\ args = new_items
    /\ new_items[1].id # new_items[2].id

\* ------------------------------------------------------------------ C5
DeepKeys == {"deep_dive", "deep_summary", "iocs", "affected_products",
             "cve_ids", "threat_actor", "mitigations"}

\* the item as it was before the deep-dive fields were merged in
Original(item) == [f \in (DOMAIN item) \ DeepKeys |-> item[f]]

AtOrAboveThreshold(item) ==
    Get(item, "severity", 0) >= cfg.SEVERITY_THRESHOLD

ThresholdApplied ==
    \/ pc \in {"deep_dive", "slack"}
    \/ (pc \in {"idle", "exit"} /\ "mark_seen" \in Range(calls))

\* C5: the notifiable list is exactly the enriched items at or above
\* SEVERITY_THRESHOLD, in order, and nothing below it reaches deep_dive,
\* send_slack or send_email.
C5_ThresholdFilter ==
    /\ ThresholdApplied =>
          [k \in DOMAIN to_notify |-> Original(to_notify[k])]
              = SelectSeq(enriched, AtOrAboveThreshold)
    /\ \A k \in DOMAIN dive_in : AtOrAboveThreshold(dive_in[k])
    /\ \A k \in DOMAIN to_notify : AtOrAboveThreshold(to_notify[k])
    /\ Len(slack) <= Len(to_notify)

\* one enriched item exactly at the threshold is kept, one below is dropped
C5_Witness ==
    /\ pc = "slack" /\ Len(enriched) = 2 /\ Len(to_notify) = 1
    /\ to_notify[1].severity = cfg.SEVERITY_THRESHOLD
    /\ \E k \in DOMAIN enriched : enriched[k].severity < cfg.SEVERITY_THRESHOLD
    /\ slack[1] # "pending"

\* ------------------------------------------------------------------ C6
CycleFinished == pc \in {"idle", "exit"} /\ calls # <<>>

\* run_cycle came to a return statement
CycleReturned == CycleFinished /\ err = "none"

\* C6: run_cycle returns the number of surviving items at or above
\* SPIKE_SEVERITY_MIN, which is the number of enriched items at or above
\* max(SEVERITY_THRESHOLD, SPIKE_SEVERITY_MIN); 0 without new or notifiable items.
C6_ReturnsSpikeCount ==
    CycleReturned =>
        /\ result = Cardinality({k \in DOMAIN to_notify :
                        Get(to_notify[k], "severity", 0) >= cfg.SPIKE_SEVERITY_MIN})
        /\ result = Cardinality({k \in DOMAIN enriched :
                        Get(enriched[k], "severity", 0)
                            >= Max(cfg.SEVERITY_THRESHOLD, cfg.SPIKE_SEVERITY_MIN)})
        /\ (new_items = <<>> \/ to_notify = <<>>) => result = 0

\* two items notified, only one of them counts towards the spike
C6_Witness ==
    /\ pc = "exit" /\ "send_email" \in Range(calls)
    /\ Len(to_notify) = 2 /\ result = 1
    /\ to_notify[2].severity = cfg.SPIKE_SEVERITY_MIN

\* ------------------------------------------------------------------ C7
\* C7: when filter_new returns an empty list the cycle returns 0, calls none
\* of enrich, mark_seen, deep_dive, send_slack, send_email, and leaves the
\* rows of the store as they were.
C7_NothingNew ==
    /\ []((CycleFinished /\ new_items = <<>>) =>
            (result = 0 /\ calls = <<"collect_all", "filter_new">>))
    /\ [][(pc = "filter" /\ new_items' = <<>>) =>
            (db'.seen_items = db.seen_items /\ result' = 0
             /\ enrichCnt' = enrichCnt /\ notifyCnt' = notifyCnt)]_vars

\* everything collected was already seen
C7_Witness ==
    /\ CycleFinished /\ raw # <<>> /\ new_items = <<>>
    /\ result = 0 /\ db.seen_items # <<>>

\* ------------------------------------------------------------------ C8
Stages(n) ==
    <<"collect_all", "filter_new", "enrich", "mark_seen", "deep_dive">>
    \o [k \in 1..n |-> "send_slack"] \o <<"send_email">>

IsPrefix(s, t) == Len(s) <= Len(t) /\ SubSeq(t, 1, Len(s)) = s

\* C8: with a notifiable item the stages run in the order collect_all,
\* filter_new, enrich, mark_seen, deep_dive, send_slack for every item,
\* send_email, and send_email starts only when every send_slack has returned.
C8_StageOrder ==
    /\ IsPrefix(calls, Stages(Len(slack)))
    /\ "send_email" \in Range(calls) =>
          /\ calls = Stages(Len(to_notify))
          /\ \A k \in DOMAIN slack : slack[k] \in Returned
    /\ \A k \in DOMAIN slack :
          (slack[k] # "pending") <=> (k <= Count(calls, "send_slack"))

\* a complete cycle with a fan-out of two
C8_Witness ==
    /\ "send_email" \in Range(calls) /\ Len(to_notify) = 2
    /\ Len(calls) = 8

\* ------------------------------------------------------------------ C9
Severity(items, k) == Get(items[k], "severity", 0)

AboveFloor(items) ==
    {k \in DOMAIN items : Severity(items, k) >= cfg.DEEP_DIVE_MIN_SEVERITY}

\* the positions of the top DEEP_DIVE_MAX_PER_CYCLE items at or above the
\* floor: by severity, ties by original order
TopK(items) ==
    {k \in AboveFloor(items) :
        Cardinality({j \in AboveFloor(items) :
            \/ Severity(items, j) > Severity(items, k)
            \/ (Severity(items, j) = Severity(items, k) /\ j < k)})
          < cfg.DEEP_DIVE_MAX_PER_CYCLE}

DiveReturned == pc = "slack"

\* C9: a content fetch is attempted for exactly the top
\* DEEP_DIVE_MAX_PER_CYCLE items at or above DEEP_DIVE_MIN_SEVERITY (ties by
\* original order), also when two items carry one url.
C9_FetchesExactlyTopK ==
    DiveReturned =>
        /\ fetched = TopK(dive_in)
        /\ Cardinality(fetched)
             = Min(Cardinality(AboveFloor(dive_in)), cfg.DEEP_DIVE_MAX_PER_CYCLE)

\* ------------------------------------------------------------------ C10
\* C10: the output has the length and order of the input, every item keeps
\* its original fields, and only selected candidates carry deep_dive.
C10_TotalAndOnlyCandidatesMarked ==
    DiveReturned =>
        /\ Len(to_notify) = Len(dive_in)
        /\ \A k \in DOMAIN dive_in :
            /\ Original(to_notify[k]) = dive_in[k]
            /\ Get(to_notify[k], "deep_dive", FALSE) => k \in TopK(dive_in)
            /\ k \notin TopK(dive_in) => "deep_dive" \notin DOMAIN to_notify[k]

\* ------------------------------------------------------------------ C11
DiveCalled == "deep_dive" \in Range(calls)

DiveFailures == {"fetch_none", "analysis_none", "analysis_not_object"}

\* C11: for every selected candidate whose fetch gives nothing or whose
\* analysis fails or is not the expected JSON object, the item stays as it
\* was, deep_dive raises nothing, and every other selected candidate is still
\* processed.
C11_FailedDiveLeavesItem ==
    DiveCalled =>
        /\ err # "AttributeError"
        /\ \A k \in TopK(dive_in) : outcomes[k] # "skipped"
        /\ \A k \in DOMAIN dive_in :
              outcomes[k] \in DiveFailures => to_notify[k] = dive_in[k]

\* ------------------------------------------------------------------ C12
Evaluated == pc = "sleep"

Triggering == result >= cfg.SPIKE_TRIGGER_COUNT

\* C12: an evaluation sets the expiry after exactly the cycles whose count
\* reaches SPIKE_TRIGGER_COUNT; once set it is cleared only by an evaluation
\* at or after the expiry, so never before SPIKE_DURATION_SECONDS have passed
\* since the last triggering cycle; nothing else writes it.
C12_SpikeEntryAndExit ==
    /\ [](Evaluated =>
            /\ Triggering => spike_until # None
            /\ (prev_until = None /\ ~Triggering) => spike_until = None
            /\ (prev_until # None /\ spike_until = None) =>
                  /\ ~Triggering
                  /\ utc_now >= prev_until
                  /\ utc_now >= trigger_at + cfg.SPIKE_DURATION_SECONDS
            /\ (prev_until # None /\ ~Triggering /\ utc_now < prev_until) =>
                  spike_until = prev_until)
    /\ [][pc # "evaluate" => spike_until' = spike_until]_vars

\* a spike that ran out: the evaluation at the expiry went back to NORMAL
C12_Witness ==
    /\ Evaluated /\ prev_until # None /\ spike_until = None
    /\ utc_now = prev_until

\* ------------------------------------------------------------------ C13
\* C13: a trigger while in SPIKE replaces the expiry by now +
\* SPIKE_DURATION_SECONDS, so after every evaluation the expiry lies in the
\* future and at most SPIKE_DURATION_SECONDS ahead.
C13_RetriggerRestartsWindow ==
    Evaluated =>
        /\ (prev_until # None /\ Triggering) =>
              spike_until = utc_now + cfg.SPIKE_DURATION_SECONDS
        /\ spike_until # None =>
              /\ spike_until - utc_now <= cfg.SPIKE_DURATION_SECONDS
              /\ spike_until - utc_now > 0

\* a second trigger before the first expiry moved the expiry forward
C13_Witness ==
    /\ Evaluated /\ Triggering
    /\ prev_until # None /\ utc_now < prev_until
    /\ spike_until > prev_until

\* ------------------------------------------------------------------ C14
\* C14: after the transitions of an evaluation the loop sleeps
\* SPIKE_POLL_SECONDS when the expiry is set and in the future, and
\* POLL_INTERVAL_SECONDS otherwise.
C14_SleepFollowsMode ==
    Evaluated =>
        sleep_for = IF spike_until # None /\ utc_now < spike_until
                    THEN cfg.SPIKE_POLL_SECONDS
                    ELSE cfg.POLL_INTERVAL_SECONDS

\* the evaluation that ends a spike already sleeps the normal interval
C14_Witness ==
    /\ Evaluated /\ prev_until # None /\ spike_until = None
    /\ sleep_for = cfg.POLL_INTERVAL_SECONDS
    /\ cfg.POLL_INTERVAL_SECONDS # cfg.SPIKE_POLL_SECONDS

\* ------------------------------------------------------------------ C15
\* C15: a cycle that raises an Exception does not end the loop; it counts as
\* a cycle that returned 0: no trigger, a running spike kept until it
\* expires, and the sleep chosen from the mode as usual.
C15_RaisingCycleCountsZero ==
    err = "Exception" =>
        /\ pc \in {"evaluate", "sleep", "run_cycle"}
        /\ result = 0
        /\ Evaluated =>
              /\ spike_until = IF prev_until # None /\ utc_now < prev_until
                               THEN prev_until ELSE None
              /\ sleep_for = IF prev_until # None /\ utc_now < prev_until
                             THEN cfg.SPIKE_POLL_SECONDS
                             ELSE cfg.POLL_INTERVAL_SECONDS

\* a cycle raised during a spike, right after a cycle that triggered
C15_Witness ==
    /\ Evaluated /\ err = "Exception"
    /\ prev_until # None /\ spike_until = prev_until
    /\ trigger_at + cfg.SPIKE_POLL_SECONDS = utc_now

\* ------------------------------------------------------------------ C16
\* C16: whatever integer SEVERITY_THRESHOLD is set to, the threshold in
\* force lies in 1..10, so no item of severity 0 or without a severity,
\* fallback items of a failed enrichment included, is handed to deep_dive,
\* send_slack or send_email.
C16_ZeroSeverityNeverNotified ==
    /\ cfg.SEVERITY_THRESHOLD \in 1..10
    /\ \A k \in DOMAIN dive_in : Get(dive_in[k], "severity", 0) >= 1
    /\ \A k \in DOMAIN slack :
          slack[k] # "pending" => Get(to_notify[k], "severity", 0) >= 1
    /\ "send_email" \in Range(calls) =>
          \A k \in DOMAIN to_notify : Get(to_notify[k], "severity", 0) >= 1

\* SEVERITY_THRESHOLD=0 is raised to 1; a batch gave one result and then
\* failed, so fallback items of severity 0 sit next to the notified item
C16_Witness ==
    /\ "send_email" \in Range(calls)
    /\ cfg.SEVERITY_THRESHOLD = 1
    /\ \E k \in DOMAIN enriched : enriched[k].severity = 0
    /\ Len(to_notify) < Len(enriched)

\* ------------------------------------------------------------------ C17
EnrichDone == pc = "enriched"

BatchPositions(b) ==
    {k \in DOMAIN new_items :
        k > (b - 1) * BATCH_SIZE /\ k <= b * BATCH_SIZE}

\* the call raised, the text was no JSON, the array has fewer results than
\* the batch has items, or an element of it is no object
BatchFailed(b) ==
    \/ llm[b].kind # "ok"
    \/ Len(llm[b].results) < Cardinality(BatchPositions(b))
    \/ \E k \in DOMAIN llm[b].results : ~llm[b].results[k].object

FallbackOf(item) == [summary |-> "", severity |-> 0, topics |-> <<>>] @@ item

\* C17: every item of a batch whose enrichment failed is returned with
\* severity 0, empty summary and empty topics; nothing is raised, and a batch
\* after a failed one is still processed.
C17_FailedBatchFallsBack ==
    EnrichDone =>
        /\ err = "none"
        /\ \A b \in DOMAIN llm :
              BatchFailed(b) =>
                  \A k \in BatchPositions(b) :
                      FallbackOf(new_items[k]) \in Range(enriched)
        /\ \A b \in DOMAIN llm :
              (b > 1 /\ BatchFailed(b - 1) /\ ~BatchFailed(b)
                 /\ llm[b].results[1] = Relevant9) =>
                  \E j \in DOMAIN enriched : enriched[j].severity = 9

\* ------------------------------------------------------------------ C18
\* deep_dive returned the list L that the cycle then notifies
DiveGaveList == DiveCalled /\ err # "AttributeError"

\* C18: in a cycle whose list after deep_dive is L, send_slack is called
\* once for each element of L and send_email once with the whole of L; a
\* cycle without a notifiable item calls neither.
C18_OneSlackPerItemOneEmail ==
    /\ (CycleFinished /\ DiveGaveList) =>
          /\ Count(calls, "send_slack") = Len(to_notify)
          /\ \A k \in DOMAIN slack : slack[k] # "pending"
          /\ Count(calls, "send_email") = 1
          /\ email.state # "none" /\ email.items = to_notify
    /\ (CycleFinished /\ ~DiveCalled) =>
          /\ Count(calls, "send_slack") = 0
          /\ Count(calls, "send_email") = 0
          /\ email = NoEmail

\* ------------------------------------------------------------------ C19
DeliveryFailed ==
    \/ \E k \in DOMAIN slack : slack[k] = "failed"
    \/ email.state = "failed"

\* no send_slack of the fan-out raised while building its payload
PayloadsBuilt == \A k \in DOMAIN slack : ~PayloadRaises(to_notify[k])

\* C19: a failed POST or a failed SMTP exchange is never raised: a send_slack
\* raises only while building its payload; in a cycle whose only failures are
\* deliveries every other send_slack still returns, send_email is called with
\* the whole list and the spike count is returned; without a webhook url or
\* an SMTP host the call logs a stub line and sends nothing.
C19_DeliveryFailureSwallowed ==
    /\ \A k \in DOMAIN slack :
          slack[k] = "raised" => PayloadRaises(to_notify[k])
    /\ (CycleFinished /\ DeliveryFailed /\ PayloadsBuilt) =>
          /\ err = "none"
          /\ \A k \in DOMAIN slack : slack[k] \in Returned
          /\ Count(calls, "send_email") = 1 /\ email.items = to_notify
          /\ result = SpikeCount(to_notify, cfg)
    /\ ~cfg.SLACK_WEBHOOK_URL =>
          \A k \in DOMAIN slack : slack[k] \in {"pending", "stub"}
    /\ ~cfg.SMTP_HOST => email.state \in {"none", "stub"}

\* one POST failed, the other went through, then the SMTP exchange failed,
\* and the cycle returned the count of both items
C19_Witness ==
    /\ CycleFinished /\ err = "none"
    /\ Len(slack) = 2 /\ slack[1] = "failed" /\ slack[2] = "done"
    /\ email.state = "failed" /\ ~PayloadRaises(to_notify[1])
    /\ result = 2

\* ------------------------------------------------------------------ C20
Collected == pc = "collected"

Succeeded(s) == IF coll.status[s] = "ok" THEN coll.got[s] ELSE <<>>

\* C20 as stated: nothing is raised, every source is fetched whatever the
\* others did, and the result is the lists of the sources that succeeded, in
\* the order RSS feeds, NVD, CISA KEV.
C20_OnlySucceededSources ==
    /\ err = "none"
    /\ Collected =>
          /\ \A s \in Sources : coll.status[s] # "pending"
          /\ raw = Concat([s \in Sources |-> Succeeded(s)], 1, CISA)

IsProperPrefix(p, t) == Len(p) < Len(t) /\ SubSeq(t, 1, Len(p)) = p

\* C20 amended: nothing is raised, every source is fetched whatever the
\* others did, and the result is, in the order RSS feeds, NVD, CISA KEV, the
\* whole list of each source that succeeded, nothing of a source that timed
\* out or answered an error status, and of a source that raised another
\* exception the items built before it raised.
C20_SucceededAndBuiltBeforeFailure ==
    /\ err = "none"
    /\ \A s \in Sources :
          /\ coll.status[s] = "ok" => coll.got[s] = Served(s)
          /\ coll.status[s] \in {"pending", "timeout", "http_error"} =>
                coll.got[s] = <<>>
          /\ coll.status[s] = "exception" => IsProperPrefix(coll.got[s], Served(s))
    /\ Collected =>
          /\ \A s \in Sources : coll.status[s] # "pending"
          /\ raw = Concat(coll.got, 1, CISA)

\* a feed timed out and a later feed answered; NVD raised after building an
\* item, which is part of the result together with the list of CISA KEV
C20_Witness ==
    /\ Collected
    /\ coll.status[1] = "timeout" /\ coll.status[2] = "ok"
    /\ coll.status[NVD] = "exception" /\ coll.got[NVD] # <<>>
    /\ coll.status[CISA] = "ok"
    /\ Len(raw) > Len(coll.got[CISA]) + Len(coll.got[NVD])

\* ------------------------------------------------------------------ C21
\* what the call of batch b added to today's row
Billed(b) == IF llm[b].kind = "raise" THEN 0 ELSE llm[b].cost

\* the spend recorded for today when enrich came to batch b
SpentBefore(b) ==
    IF b > 1 THEN llm[b - 1].spent + Billed(b - 1)
    ELSE IF llm = <<>> THEN get_db_cost(daily_cost, today)
    ELSE llm[1].spent

\* C21: enrich makes the LLM call of a batch exactly when the batches before
\* it were called and the spend recorded for today is below the limit at that
\* moment, whatever is recorded under other dates; every call is made on
\* today's date at a spend below the limit, and no item of a batch that was
\* not called has an entry in the returned list.
C21_CallsOnlyBelowLimit ==
    EnrichDone =>
        /\ \A b \in 1..NumBatches(new_items) :
              (b \in DOMAIN llm) <=>
                  /\ \A j \in 1..(b - 1) : j \in DOMAIN llm
                  /\ SpentBefore(b) < cfg.DAILY_COST_LIMIT_USD
        /\ \A b \in DOMAIN llm :
              /\ llm[b].date = today
              /\ llm[b].spent < cfg.DAILY_COST_LIMIT_USD
        /\ \A k \in DOMAIN new_items :
              (\A b \in DOMAIN llm : k \notin BatchPositions(b)) =>
                  \A j \in DOMAIN enriched : enriched[j].title # k

\* yesterday's spend is at the limit, the first batch was called all the
\* same, its bill reached the limit and the second batch was skipped
C21_Witness ==
    /\ EnrichDone /\ NumBatches(new_items) = 2 /\ Len(llm) = 1
    /\ (today - 1) \in DOMAIN daily_cost
    /\ daily_cost[today - 1] >= cfg.DAILY_COST_LIMIT_USD
    /\ daily_cost[today] >= cfg.DAILY_COST_LIMIT_USD
    /\ enriched # <<>>

\* ------------------------------------------------------------------ C22
Removed == (DOMAIN db.seen_items) \ (DOMAIN db'.seen_items)

\* C22: a row of the store keeps its seen_at for as long as it is there,
\* whatever filter_new, mark_seen and run_cycle do; a row disappears only in
\* a prune_old_entries(days) call and only when its seen_at is more than
\* `days` days before the call; the call returns the number of rows removed.
\* (A step that leaves the clock alone is a call; the others are time passing.)
C22_RemovedOnlyByPruneAfterTtl ==
    [][/\ \A fp \in DOMAIN db.seen_items :
             IF fp \in Removed
             THEN /\ op' = "prune_old_entries"
                  /\ db.seen_items[fp] + args'[1].days < clock'
             ELSE db'.seen_items[fp] = db.seen_items[fp]
       /\ (op' = "prune_old_entries" /\ clock' = clock) =>
              ret' = Cardinality(Removed)]_vars

\* a prune with the default TTL removed one row and kept one that is exactly
\* DEDUP_TTL_DAYS old
C22_Witness ==
    /\ op = "prune_old_entries" /\ args[1].days = DEDUP_TTL_DAYS /\ ret = 1
    /\ \E fp \in DOMAIN db.seen_items :
          db.seen_items[fp] + DEDUP_TTL_DAYS = clock

\* ------------------------------------------------------------------ C23
\* C23: under every configuration the settings permit, a sleep chosen while
\* in SPIKE is shorter than the sleep NORMAL would use.
C23_SpikeSleepsShorter ==
    (pc = "sleep" /\ InSpike(spike_until, utc_now)) =>
        sleep_for < cfg.POLL_INTERVAL_SECONDS

\* ------------------------------------------------------------------ C24
\* C24: an item whose result gives the severity as the numeric string "8"
\* (otherwise well-formed and relevant) is returned by enrich with the
\* integer severity 8.
C24_NumericStringSeverityIsCast ==
    EnrichDone =>
        \A b \in DOMAIN llm :
            ~BatchFailed(b) =>
                \A k \in BatchPositions(b) :
                    llm[b].results[k - (b - 1) * BATCH_SIZE] = Quoted8 =>
                        ([summary |-> "summary", severity |-> 8,
                          topics |-> <<>>] @@ new_items[k]) \in Range(enriched)

\* ------------------------------------------------------------------ C25
\* 429, any 5xx status, or a timeout
RetryableFailure(o) ==
    \/ o.kind = "TimeoutException"
    \/ o.kind = "response" /\ (o.status = 429 \/ o.status \in 500..599)

\* C25: a call makes at most max_retries + 1 GETs, sleeps 2 s, 4 s, ...
\* between them, goes on to another attempt after a 429, a 5xx or a timeout
\* while attempts are left, and when every attempt failed that way it
\* returns None: it does not raise and does not return the failing response.
C25_GivesUpWithNone ==
    http.state = "done" =>
        /\ Len(http.gets) <= http.max_retries + 1
        /\ Len(http.waits) = Len(http.gets) - 1
        /\ \A k \in DOMAIN http.waits : http.waits[k] = 2 * (2 ^ (k - 1))
        /\ \A k \in DOMAIN http.waits : RetryableFailure(http.gets[k])
        /\ RetryableFailure(http.gets[Len(http.gets)]) =>
               /\ Len(http.gets) = http.max_retries + 1
               /\ http.result.kind = "None"

\* ------------------------------------------------------------------ C26
Gets(trace) == {k \in DOMAIN trace : trace[k].ev = "get"}
Checks(trace) == {k \in DOMAIN trace : trace[k].ev = "check"}

\* the check of an https URL with a host that resolved to an address outside
\* the private, loopback and link-local ranges
PassedCheck(e) ==
    /\ e.ev = "check" /\ e.ok
    /\ e.url.scheme = "https" /\ e.url.host # ""
    /\ e.answer.ok
    /\ e.answer.ip \notin {<<10, 0>>, <<172, 16>>, <<192, 168>>, <<127, 0>>,
                            <<169, 254>>}

\* C26: every GET of _fetch_content goes to a URL that _is_safe_url accepted
\* earlier in the call (the initial URL before the first request, a redirect
\* target before it is requested); a call makes at most 6 requests; and a
\* URL that _is_safe_url rejects ends the call with None, no request
\* following the rejection.
C26_RequestsOnlyValidatedUrls ==
    nav.state # "idle" =>
        /\ \A k \in Gets(nav.trace) :
               \E j \in 1..(k - 1) :
                   /\ PassedCheck(nav.trace[j])
                   /\ nav.trace[j].url = nav.trace[k].url
                   /\ \A i \in (j + 1)..(k - 1) : nav.trace[i].ev = "get"
        /\ Cardinality(Gets(nav.trace)) <= max_redirects + 1
        /\ \A k \in Checks(nav.trace) :
               ~nav.trace[k].ok =>
                   /\ k = Len(nav.trace)
                   /\ nav.state = "done" /\ nav.result = "None"

\* five redirects were followed, and the sixth request was answered with a
\* redirect to a target that _is_safe_url rejected
C26_Witness ==
    /\ nav.state = "done" /\ nav.result = "None"
    /\ Cardinality(Gets(nav.trace)) = max_redirects + 1
    /\ nav.trace[Len(nav.trace)].ev = "check"
    /\ ~nav.trace[Len(nav.trace)].ok

\* ------------------------------------------------------------------ C27
\* C27: an item that enrich left in a batch it skipped for the budget is
\* marked seen by the same cycle; it was not submitted to the LLM (it sits
\* behind the last batch called and has no entry in the result), filter_new
\* of every later cycle excludes it, and it is never in a list that is
\* enriched, selected for notification or delivered.
C27_SkippedItemsSeenNeverProcessed ==
    \A i \in skipped :
        /\ \/ sha256(i) \in DOMAIN db.seen_items
           \/ pc = "mark_seen" /\ i \in {new_items[k].id : k \in DOMAIN new_items}
        /\ \A k \in DOMAIN new_items :
               new_items[k].id = i =>
                   EnrichReturned /\ k > Len(llm) * BATCH_SIZE
        /\ \A k \in DOMAIN enriched : enriched[k].id # i
        /\ \A k \in DOMAIN to_notify : to_notify[k].id # i
        /\ notifyCnt[i] = 0

\* a later cycle collected an item that an earlier cycle had skipped, and
\* filter_new returned nothing new
C27_Witness ==
    /\ "filter_new" \in Range(calls) /\ new_items = <<>>
    /\ \E k \in DOMAIN raw :
           raw[k].id \in skipped /\ sha256(raw[k].id) \in DOMAIN db.seen_items

\* ------------------------------------------------------------------ C28
\* what has been passed to send_slack or send_email is in the store, put
\* there by the mark_seen of this cycle
CommittedBeforeSent ==
    /\ \A k \in DOMAIN slack :
           slack[k] # "pending" =>
               /\ "mark_seen" \in Range(calls)
               /\ sha256(to_notify[k].id) \in DOMAIN db.seen_items
    /\ email # NoEmail =>
           /\ "mark_seen" \in Range(calls)
           /\ email.items = to_notify
           /\ \A k \in DOMAIN email.items :
                  sha256(email.items[k].id) \in DOMAIN db.seen_items

\* nothing that was notifiable in an earlier cycle, however that cycle
\* ended, is selected for notification again
NotNotifiableAgain ==
    \A k \in DOMAIN to_notify : to_notify[k].id \notin handled

\* the cycle was left by an exception or an interruption after mark_seen
FailedAfterMarkSeen == err # "none" /\ "mark_seen" \in Range(calls)

\* C28 (as stated): what is passed to send_slack or send_email was committed
\* to the store earlier in the cycle; and when deep_dive or a notification
\* raises, or the process is interrupted, after mark_seen, none of the
\* cycle's notifiable items is notified, in that cycle or in a later one.
C28_FailureLeavesNothingNotified ==
    /\ CommittedBeforeSent
    /\ NotNotifiableAgain
    /\ FailedAfterMarkSeen =>
           /\ \A k \in DOMAIN slack : slack[k] # "done"
           /\ email = NoEmail

\* C28 (amended): what is passed to send_slack or send_email was committed
\* to the store earlier in the cycle; and when deep_dive or a notification
\* raises, or the process is interrupted, after mark_seen, the notifiable
\* items that had not been passed on by then are passed on in no later
\* cycle, and no item is notified in two cycles.
C28_CommittedThenAtMostOnce ==
    /\ CommittedBeforeSent
    /\ NotNotifiableAgain
    /\ \A i \in handled :
           \A k \in DOMAIN slack : slack[k] # "pending" => to_notify[k].id # i

\* an item that was notifiable in a cycle cut short before its send_slack
\* was collected again, and filter_new left it out
C28_Witness ==
    /\ "filter_new" \in Range(calls)
    /\ \E k \in DOMAIN raw :
           /\ raw[k].id \in handled /\ notifyCnt[raw[k].id] = 0
           /\ \A j \in DOMAIN new_items : new_items[j].id # raw[k].id

\* ------------------------------------------------------------------ C29
\* the cycle just run returned a count below the trigger, or raised
QuietCycle == pc = "evaluate" => result < cfg.SPIKE_TRIGGER_COUNT

LongestCycle == CHOOSE d \in CycleSeconds : \A e \in CycleSeconds : e <= d

\* the last trigger leaves room, before the observed time ends, for the
\* window to run out and for the iteration that notices it
ExpiryObserved ==
    \/ trigger_at = None
    \/ trigger_at + cfg.SPIKE_DURATION_SECONDS + cfg.SPIKE_POLL_SECONDS
          + LongestCycle <= MaxTime

SpikeOver ==
    /\ spike_until = None
    /\ pc = "sleep" => sleep_for = cfg.POLL_INTERVAL_SECONDS

\* C29: in continuous mode, when from some cycle on every cycle returns a
\* count below SPIKE_TRIGGER_COUNT or raises (and the loop is not
\* interrupted), the loop eventually leaves SPIKE: spike_until is reset to
\* None and from then on every sleep is POLL_INTERVAL_SECONDS.
C29_QuietCyclesEndSpike ==
    <>[](QuietCycle /\ pc # "stopped" /\ ExpiryObserved) => <>[]SpikeOver

\* a quiet iteration after the one that reset the spike state
C29_Witness ==
    /\ pc = "sleep" /\ trigger_at # None
    /\ prev_until = None /\ spike_until = None
    /\ result < cfg.SPIKE_TRIGGER_COUNT
    /\ utc_now >= trigger_at + cfg.SPIKE_DURATION_SECONDS
    /\ sleep_for = cfg.POLL_INTERVAL_SECONDS

\* ------------------------------------------------------------------ C30
\* _call_claude was called for position k: the page had been fetched
DiveCalledLlm(o) == o \in {"ok", "analysis_none", "analysis_not_object"}

\* C30: the daily_cost table changes only in enrich, by what its calls are
\* billed; deep_dive leaves it as it is whether or not it calls the LLM, and
\* it runs whatever the recorded spend is.
C30_OnlyEnrichRecordsCost ==
    [][/\ daily_cost' # daily_cost => (pc = "enrich" /\ pc' = "mark_seen")
       /\ (pc = "enrich" /\ pc' = "mark_seen") =>
              \A d \in DOMAIN daily_cost' :
                  get_db_cost(daily_cost', d) >= get_db_cost(daily_cost, d)
       /\ pc = "deep_dive" => daily_cost' = daily_cost]_vars

\* deep_dive called the LLM in a cycle whose enrich had left the second
\* batch out because today's spend had reached the limit
C30_Witness ==
    /\ DiveCalled
    /\ \E k \in DOMAIN outcomes : DiveCalledLlm(outcomes[k])
    /\ Len(llm) < NumBatches(new_items)
    /\ skipped # {}
    /\ get_db_cost(daily_cost, today) >= cfg.DAILY_COST_LIMIT_USD
====
